---- MODULE Spec2Model ----
(***************************************************************************)
(* Model of the traceroute engine of sparrow (package internal/traceroute  *)
(* and helper.Retry).                                                      *)
(*                                                                         *)
(* Nine specifications share this module:                                  *)
(*   Spec        - a per-protocol Run (tcpClient.Run): the targets are     *)
(*                 traced one after the other; per target a hopper         *)
(*                 goroutine starts one worker per TTL, every worker runs  *)
(*                 the tracer inside helper.Retry, the hops go through the *)
(*                 buffered hopChan to collectResults.                     *)
(*   SpecRuns    - the same Run with either receiver (tcpClient or         *)
(*                 udpClient),                                             *)
(*                 any Options.MaxTTL from 0 on and targets of either      *)
(*                 protocol.                                               *)
(*   SpecProbe   - one call of tcpClient.trace or udpClient.trace, step by *)
(*                 step: ToAddr, dial, ICMP listener, write, Read and the  *)
(*                 switch on its error, with the ICMP messages that arrive *)
(*                 while the probe reads, and the deferred calls that      *)
(*                 close what the call opened; helper.Retry may call trace *)
(*                 again after an error.                                   *)
(*   SpecErrQueue - one call of errQueueListener.Read, step by step: the   *)
(*                 select on ctx.Done(), recvPacket and the branch on its  *)
(*                 error, while ICMP errors reach the error queue, the     *)
(*                 deadline passes or the caller cancels; then the switch  *)
(*                 of udpClient.trace on what Read returned.               *)
(*   SpecCollect - collectResults reading a channel that carries any hops, *)
(*                 as in TestCollectResults.                               *)
(*   SpecClient  - genericClient.Run: validation and grouping of the       *)
(*                 targets, one goroutine per protocol group (runner.run), *)
(*                 the goroutine that closes the channels and the select   *)
(*                 loop of runner.collect.  The per-protocol clients are   *)
(*                 Client interface values: a sub-run returns a Result     *)
(*                 with one entry per target of its group, or an error.    *)
(*   FairSpecClient - SpecClient with weak fairness on every step of its   *)
(*                 goroutines and on every ready case of the select: the   *)
(*                 Go scheduler runs every runnable goroutine.             *)
(*   SpecRunner  - runner.run and runner.collect with the tasks of a       *)
(*                 groups map that has a TCP group, a UDP group or both.   *)
(*   SpecRetry   - helper.Retry around any effector, with the select       *)
(*                 between ctx.Done() and time.After(delay).               *)
(*                                                                         *)
(* Granularity: a step of a goroutine runs up to and including its next    *)
(* access to shared state (channel, WaitGroup, context).                   *)
(*                                                                         *)
(* Hop.Name and Hop.Latency are not modelled: no modelled step reads them. *)
(* netConn.Close is taken to accept a nil connection, as tcpConn.Close     *)
(* does and as TestTCPClient_trace requires.                               *)
(***************************************************************************)
EXTENDS Integers, Sequences, FiniteSets, TLC

\* ------------------------------------------------------------------ bounds
\* Options.MaxTTL of the modelled run
MaxTTL == 2
\* Options.Retry.Count of the modelled run
RetryCount == 1
\* number of targets handed to the per-protocol Run
NumTargets == 1
\* largest length of the target list handed to genericClient.Run
MaxTargets == 2
\* largest number of hops written to the channel read by collectResults alone
MaxFeed == 4
\* largest RetryConfig.Count handed to Retry on its own
MaxCount == 2
\* largest RetryConfig.Delay (in units of time) handed to Retry on its own
MaxDelay == 2
\* largest number of ICMP messages that arrive while one probe reads
MaxQueue == 2
\* largest number of calls of recvPacket followed in one Read
MaxCalls == 3
\* largest number of dial attempts of one probe that find the port in use
MaxRedials == 2

VARIABLES
    \* ---- per-protocol Run (Spec)
    run,        \* the per-protocol Run: its receiver (client) and its targets
    net,        \* what the network does to the probes of each TTL
    rpc,        \* position of tcpClient.Run: "loop", "collect", "returned"
    ti,         \* index of the target of the current loop iteration
    hpc,        \* position of the hopper goroutine: "idle","spawn","wait","done"
    spawned,    \* workers started so far by hopper.run
    hwg,        \* hopper.wg counter
    w,          \* TTL workers of the current target
    hopChan,    \* content of the buffered hop channel of the current target
    chClosed,   \* whether hopChan is closed
    chPanic,    \* a send on the closed hopChan happened
    hops,       \* local slice of collectResults (hops read so far)
    res,        \* Result built by Run: target index -> hop list
    ctxDone,    \* the context handed to Run is cancelled
    \* ---- collectResults on its own (SpecCollect)
    feed,       \* hops the producer has still to write to the channel
    \* ---- genericClient.Run (SpecClient)
    targets,    \* the target list handed to genericClient.Run
    cpc,        \* position of genericClient.Run: "start","collect","returned","off"
    sub,        \* per protocol: state of the goroutine started by runner.run
    rwg,        \* runner.wg counter
    resCh,      \* content of runner.res
    errsCh,     \* content of runner.errs
    resClosed,  \* runner.res is closed
    errsClosed, \* runner.errs is closed
    closer,     \* position of the goroutine of collect: "off","wait","closeErrs","done"
    acc,        \* local res of runner.collect
    ret,        \* what genericClient.Run returned
    subErr,     \* protocols whose sub-run returned an error
    \* ---- helper.Retry on its own (SpecRetry)
    rc,         \* the RetryConfig: Count and Delay
    retryPc,    \* position of Retry: "off","call","select","wait","returned"
    retryR,     \* the loop variable r
    calls,      \* number of invocations of the effector so far
    lastErr,    \* result of the last invocation: 0 for nil, k for the error
                \* of the k-th invocation
    delays,     \* the delays handed to time.After so far
    retryRet,   \* what Retry returned
    stop,       \* history: the point at which the context was cancelled at
                \* a failed attempt or during the backoff
    \* ---- one call of a tracer (SpecProbe)
    probe,      \* the call of trace: its receiver, its target, its position,
                \* what it opened, read and wrote, and what it returned
    \* ---- one call of errQueueListener.Read (SpecErrQueue)
    lis         \* the call of Read: its context, the socket and its error
                \* queue, its position in the loop and what it returned

runVars == <<lis, probe, run, net, rpc, ti, hpc, spawned, hwg, w, hopChan, chClosed, chPanic, hops, res>>
clientVars == <<targets, cpc, sub, rwg, resCh, errsCh, resClosed, errsClosed,
                closer, acc, ret, subErr>>
retryVars == <<rc, retryPc, retryR, calls, lastErr, delays, retryRet, stop>>
probeVars == <<probe>>
vars == <<run, net, rpc, ti, hpc, spawned, hwg, w, hopChan, chClosed, chPanic, hops, res,
          ctxDone, feed, targets, cpc, sub, rwg, resCh, errsCh, resClosed, errsClosed,
          closer, acc, ret, subErr,
          rc, retryPc, retryR, calls, lastErr, delays, retryRet, stop, probe, lis>>

\* --------------------------------------------------------------- data model
TTLs == 1..MaxTTL

\* Target of the per-protocol Run: every target resolves to this address
TargetIP == "8.8.8.8"
TargetPort == 53

\* address of the router that answers the probe with the given TTL
RouterIP(ttl) == "0.0.0." \o ToString(ttl)

HopAddress(ip, port) == [IP |-> ip, Port |-> port]

\* a hop that never records the arrival at the target
HopUnreached(ttl, addr, reached) == [TTL |-> ttl, Addr |-> addr, Reached |-> FALSE]

Hop(ttl, addr, reached) == [TTL |-> ttl, Addr |-> addr, Reached |-> reached]

\* the zero value of Hop
NoHop == Hop(0, HopAddress("", 0), FALSE)

ProtocolTCP == "tcp"
ProtocolUDP == "udp"

\* a target as the caller hands it to the per-protocol Run: hopTTL and
\* hopChan are not set
RunTarget(p) ==
    [Protocol |-> p, Address |-> TargetIP, Port |-> TargetPort,
     hopTTL |-> 0, hopChan |-> 0]

\* the zero value of Target
NoTarget == [Protocol |-> "", Address |-> "", Port |-> 0, hopTTL |-> 0, hopChan |-> 0]

\* a clone that counts the TTL from the next hop on
withHopTTLNext(t, ttl) ==
    [Protocol |-> t.Protocol, Address |-> t.Address, Port |-> t.Port,
     hopChan |-> t.hopChan, hopTTL |-> ttl + 1]

\* a clone that loses the channel
withHopTTLNoChan(t, ttl) ==
    [Protocol |-> t.Protocol, Address |-> t.Address, Port |-> t.Port,
     hopChan |-> 0, hopTTL |-> ttl]

\* Target.withHopTTL: the clone handed to the tracer
withHopTTL(t, ttl) ==
    [Protocol |-> t.Protocol, Address |-> t.Address, Port |-> t.Port,
     hopChan |-> t.hopChan, hopTTL |-> ttl]

\* Target.ToAddr: the error, "nil" for none (the address is then
\* TargetIP:TargetPort)
ToAddr(t) ==
    IF t.Protocol = ProtocolTCP THEN "nil" ELSE "invalid target protocol"

\* the first port of the range randomPort draws from and the size of the range
basePort == 30000
portRange == 10000

\* randomPort for the number n that rand.N(portRange) returns
randomPort(n) == n + basePort

\* the numbers rand.N(portRange) returns in the model: the ends of its range
Draws == {0, portRange - 1}

\* the local port of a probe (randomPort) and a port of another probe
ProbePort == 30000
OtherPort == 30001

\* What the network does to one probe:
\*   connect          dial succeeds
\*   dialErr          dial fails, not with EHOSTUNREACH
\*   timeExceeded     EHOSTUNREACH, then ICMP TimeExceeded from the router
\*   portUnreachable  EHOSTUNREACH, then ICMP DestinationUnreachable/Port
\*                    sent by the target
\*   portUnreachableOther  EHOSTUNREACH, then ICMP DestinationUnreachable/Port
\*                    sent by a host on the path (a gateway that rejects the
\*                    segment)
\*   deadline         EHOSTUNREACH, then no ICMP message before the deadline
\*   icmpNotAvailable EHOSTUNREACH, icmp.ListenPacket fails with EPERM
\*   listenErr        EHOSTUNREACH, icmp.ListenPacket fails with another error
\*   readErr          EHOSTUNREACH, then the context is cancelled before an
\*                    ICMP message arrives
\*   writeErr         the write of the UDP datagram fails
\* For a UDP probe the dial fails on dialErr only, and the conditions of the
\* raw ICMP socket do not concern it.
Outcomes == {"connect", "dialErr", "timeExceeded", "portUnreachable",
             "portUnreachableOther", "deadline", "icmpNotAvailable",
             "listenErr", "readErr", "writeErr"}

\* the error of dialTCP for an outcome
dialTCP(o) ==
    CASE o = "connect" -> "nil"
      [] o = "dialErr" -> "network failure"
      [] OTHER         -> "EHOSTUNREACH"

\* the error of one dialer.DialContext of dialTCP: EADDRINUSE when the drawn
\* port is taken, otherwise what the outcome says
DialContext(o, inUse) == IF inUse THEN "EADDRINUSE" ELSE dialTCP(o)

\* a dialTCP that returns EADDRINUSE like any other error
dialTCPRedialsNever(err) == FALSE

\* dialTCP calls itself after this error of the dialer
dialTCPRedials(err) == err = "EADDRINUSE"

\* the port of the netConn dialTCP returns when its outermost call drew the
\* port outer and its innermost call the port inner: what the innermost
\* call returns is returned by every call around it
dialTCPPort(outer, inner) == inner

\* a recordTCPError that lets every dial error pass
recordTCPErrorLenient(err) == "nil"

\* recordTCPError: nil for no error and for EHOSTUNREACH, any other error
\* wrapped with %w
recordTCPError(err) ==
    IF err = "nil" \/ err = "EHOSTUNREACH" THEN "nil"
    ELSE "failed to dial TCP connection: " \o err

\* the error of icmp.ListenPacket for an outcome
ListenPacket(o) ==
    CASE o = "icmpNotAvailable" -> "EPERM"
      [] o = "listenErr"        -> "EMFILE"
      [] OTHER                  -> "nil"

\* newRawListener: the listener and the error returned for the error of
\* icmp.ListenPacket
newRawListener(wantPort, err) ==
    IF err = "nil" THEN [canICMP |-> TRUE, recvPort |-> wantPort, err |-> "nil"]
    ELSE IF err = "EPERM"
    THEN [canICMP |-> FALSE, recvPort |-> wantPort, err |-> "nil"]
    ELSE [canICMP |-> FALSE, recvPort |-> wantPort,
          err |-> "failed to create ICMP listener"]

\* no listener
NoListener == [canICMP |-> FALSE, recvPort |-> 0, err |-> "none"]

\* ICMP codes of DestinationUnreachable: "Host Unreachable", "Port
\* Unreachable"
icmpUnreachableHost == 1
icmpUnreachablePort == 3

\* an ICMP message as a listener receives it: type, code, sender and the
\* port found in the header that follows the inner IP header
Message(type, code, src, port) ==
    [Type |-> type, Code |-> code, Src |-> src, Port |-> port, Short |-> FALSE,
     Truncated |-> FALSE]

\* an ICMP message whose data ends after the inner IP header: there is no
\* port to find
ShortMessage(type, code, src) ==
    [Type |-> type, Code |-> code, Src |-> src, Port |-> 0, Short |-> TRUE,
     Truncated |-> FALSE]

\* an ICMP message whose data ends before the end of the inner IP header
\* (fewer than ipv4.HeaderLen bytes)
TruncatedMessage(type, code, src) ==
    [Type |-> type, Code |-> code, Src |-> src, Port |-> 0, Short |-> TRUE,
     Truncated |-> TRUE]

\* the run-time panic of a slice expression whose low bound is beyond the
\* length of the slice; nothing recovers it, the process ends
SliceBoundsPanic == "panic: slice bounds out of range"

\* the ICMP message the network delivers for an outcome and its sender
ICMPMessage(ttl, o) ==
    CASE o = "timeExceeded" ->
            Message("TimeExceeded", 0, RouterIP(ttl), ProbePort)
      [] o = "portUnreachable" ->
            Message("DestinationUnreachable", icmpUnreachablePort, TargetIP, ProbePort)
      [] o = "portUnreachableOther" ->
            Message("DestinationUnreachable", icmpUnreachablePort, RouterIP(ttl),
                    ProbePort)
      [] OTHER -> Message("none", 0, "", 0)

\* the ICMP messages that arrive for a probe before its context is done
Arrivals(ttl, o) ==
    LET msg == ICMPMessage(ttl, o)
    IN  IF msg.Type = "none" THEN <<>> ELSE <<msg>>

\* ctx.Err() of the context of the read when it is done
ctxErr(o) ==
    IF o = "readErr" THEN "context.Canceled" ELSE "context.DeadlineExceeded"

\* the zero value of icmpPacket, with the error of the parse
NoPacket(err) == [remoteAddr |-> "", port |-> 0, reached |-> FALSE, err |-> err]

\* a newICMPPacket that takes every DestinationUnreachable for the arrival at
\* the target
newICMPPacketAnyCode(src, msg) ==
    IF msg.Type \notin {"TimeExceeded", "DestinationUnreachable"}
    THEN NoPacket("unexpected ICMP message type")
    ELSE IF msg.Truncated THEN NoPacket(SliceBoundsPanic)
    ELSE IF msg.Short THEN NoPacket("tcp segment too short")
    ELSE [remoteAddr |-> src, port |-> msg.Port,
          reached |-> msg.Type = "DestinationUnreachable", err |-> "nil"]

\* newICMPPacket: an error for a type other than TimeExceeded and
\* DestinationUnreachable and for a segment of less than two bytes;
\* remoteAddr is the sender, port the inner port, reached is derived from the
\* type and the code
newICMPPacket(src, msg) ==
    IF msg.Type \notin {"TimeExceeded", "DestinationUnreachable"}
    THEN NoPacket("unexpected ICMP message type")
    ELSE IF msg.Truncated THEN NoPacket(SliceBoundsPanic)
    ELSE IF msg.Short THEN NoPacket("tcp segment too short")
    ELSE [remoteAddr |-> src,
          port       |-> msg.Port,
          reached    |-> msg.Type = "DestinationUnreachable"
                         /\ msg.Code = icmpUnreachablePort,
          err        |-> "nil"]

\* a Read that returns the first packet that parses, whatever its port
RECURSIVE rawListenerReadAnyPort(_, _, _)
rawListenerReadAnyPort(l, q, end) ==
    IF ~l.canICMP THEN NoPacket("errICMPNotAvailable")
    ELSE IF q = <<>> THEN NoPacket(end)
    ELSE LET pkt == newICMPPacket(Head(q).Src, Head(q))
         IN  IF pkt.err = SliceBoundsPanic THEN pkt
             ELSE IF pkt.err # "nil" THEN rawListenerReadAnyPort(l, Tail(q), end)
             ELSE pkt

\* rawListener.Read on listener l: q holds the messages that arrive before
\* the context is done, end is ctx.Err() then.  A message that does not
\* parse and a packet for another port are skipped; a panic of newICMPPacket
\* passes through Read.
RECURSIVE rawListenerRead(_, _, _)
rawListenerRead(l, q, end) ==
    IF ~l.canICMP THEN NoPacket("errICMPNotAvailable")
    ELSE IF q = <<>> THEN NoPacket(end)
    ELSE LET pkt == newICMPPacket(Head(q).Src, Head(q))
         IN  IF pkt.err = SliceBoundsPanic THEN pkt
             ELSE IF pkt.err # "nil" THEN rawListenerRead(l, Tail(q), end)
             ELSE IF pkt.port # l.recvPort THEN rawListenerRead(l, Tail(q), end)
             ELSE pkt

\* a Read that does not look at canICMP
readErrorNoCheck(l, ttl, o) ==
    rawListenerRead([l EXCEPT !.canICMP = TRUE], Arrivals(ttl, o), ctxErr(o)).err

\* rawListener.Read on listener l for the probe with the TTL: the error
\* returned
readError(l, ttl, o) == rawListenerRead(l, Arrivals(ttl, o), ctxErr(o)).err

\* rawListener.Read: the packet returned when the error is nil
readPacket(l, ttl, o) == rawListenerRead(l, Arrivals(ttl, o), ctxErr(o))

\* tcpClient.trace: the error the call returns for an outcome, "nil" for none
traceError(t, o) ==
    IF ToAddr(t) # "nil" THEN "failed to convert target to address"
    ELSE IF dialTCP(o) = "nil" THEN "nil"
    ELSE IF recordTCPError(dialTCP(o)) # "nil" THEN recordTCPError(dialTCP(o))
    ELSE LET il == newRawListener(ProbePort, ListenPacket(o))
         IN  IF il.err # "nil" THEN "failed to create ICMP listener"
             ELSE LET err == readError(il, t.hopTTL, o)
                  IN  CASE err = "errICMPNotAvailable" ->
                                "ICMP not available for reading"
                        [] err = "context.DeadlineExceeded" -> "nil"
                        [] err \notin {"nil", "errICMPNotAvailable",
                                       "context.DeadlineExceeded"} ->
                                "failed to read ICMP message"
                        [] OTHER -> "nil"

\* a trace that takes a read that ran into the deadline for a failure
traceOkNoStar(t, o) ==
    ToAddr(t) = "nil" /\ o \in {"connect", "timeExceeded", "portUnreachable",
                                "portUnreachableOther"}

\* tcpClient.trace: whether trace returns nil for an outcome
traceOk(t, o) == traceError(t, o) = "nil"

\* tcpClient.trace: the hop written for an outcome, NoHop when trace returns
\* an error without writing
traceHop(t, o) ==
    IF ~traceOk(t, o) THEN NoHop
    ELSE IF dialTCP(o) = "nil"
    THEN Hop(t.hopTTL, HopAddress(TargetIP, TargetPort), TRUE)
    ELSE LET il     == newRawListener(ProbePort, ListenPacket(o))
             packet == readPacket(il, t.hopTTL, o)
         IN  IF readError(il, t.hopTTL, o) = "context.DeadlineExceeded"
             THEN Hop(t.hopTTL, HopAddress("*", 0), FALSE)
             ELSE Hop(t.hopTTL, HopAddress(packet.remoteAddr, 0), packet.reached)

\* ---------------------------------------------------------------- udpClient
\* the error of dialUDP for an outcome
dialUDP(o) == IF o = "dialErr" THEN "network failure" ELSE "nil"

\* newErrQueueListener over the connection of dialUDP (a *net.UDPConn, which
\* implements syscall.Conn): the listener and no error
newErrQueueListener(wantPort) == [recvPort |-> wantPort, err |-> "nil"]

\* nc.Write([]byte{0}): the error
Write(o) == IF o = "writeErr" THEN "ENETUNREACH" ELSE "nil"

\* parseExtendedErr: an error for a type other than TimeExceeded and
\* DestinationUnreachable; remoteAddr is msg.from, port is msg.port
parseExtendedErr(msg) ==
    IF msg.Type \notin {"TimeExceeded", "DestinationUnreachable"}
    THEN NoPacket("unexpected ICMP type")
    ELSE [remoteAddr |-> msg.Src,
          port       |-> msg.Port,
          reached    |-> msg.Type = "DestinationUnreachable"
                         /\ msg.Code = icmpUnreachablePort,
          err        |-> "nil"]

\* errQueueListener.Read: done is ctx.Err() when the context is done as the
\* loop is entered, "nil" otherwise; q holds the messages in the error queue
\* of the socket.  A message recvMsg finds too small for a UDP header and a
\* message that does not parse are skipped, the empty queue (EAGAIN) gives
\* context.DeadlineExceeded.
RECURSIVE errQueueListenerRead(_, _)
errQueueListenerRead(q, done) ==
    IF done # "nil" THEN NoPacket(done)
    ELSE IF q = <<>> THEN NoPacket("context.DeadlineExceeded")
    ELSE LET pkt == parseExtendedErr(Head(q))
         IN  IF Head(q).Short \/ pkt.err # "nil"
             THEN errQueueListenerRead(Tail(q), done)
             ELSE pkt

\* ctx.Err() as errQueueListener.Read is entered
ctxDoneErr(o) == IF o = "readErr" THEN "context.Canceled" ELSE "nil"

\* udpClient.trace: the error the call returns for an outcome, "nil" for none
udpTraceError(t, o) ==
    IF ToAddr(t) # "nil" THEN "failed to convert target to address"
    ELSE IF dialUDP(o) # "nil" THEN "failed to dial UDP connection"
    ELSE IF newErrQueueListener(ProbePort).err # "nil"
    THEN "failed creating errQueueListener"
    ELSE IF Write(o) # "nil" THEN "failed sending UDP probe"
    ELSE LET err == errQueueListenerRead(Arrivals(t.hopTTL, o), ctxDoneErr(o)).err
         IN  CASE err = "context.DeadlineExceeded" -> "nil"
               [] err \notin {"nil", "context.DeadlineExceeded"} ->
                       "failed to read ICMP message"
               [] OTHER -> "nil"

\* udpClient.trace: the hop written for an outcome, NoHop when trace returns
\* an error without writing
udpTraceHop(t, o) ==
    IF udpTraceError(t, o) # "nil" THEN NoHop
    ELSE LET r == errQueueListenerRead(Arrivals(t.hopTTL, o), ctxDoneErr(o))
         IN  IF r.err = "context.DeadlineExceeded"
             THEN Hop(t.hopTTL, HopAddress("*", 0), FALSE)
             ELSE Hop(t.hopTTL, HopAddress(r.remoteAddr, 0), r.reached)

\* ------------------------------------------------------------ collectResults
\* collectResults without the sort
sortByTTLArrival(s) == s

\* the filter loop without the break after a reached hop
RECURSIVE filterHopsNoBreak(_, _, _)
filterHopsNoBreak(s, i, seen) ==
    IF i > Len(s) THEN <<>>
    ELSE IF s[i].TTL \in seen THEN filterHopsNoBreak(s, i + 1, seen)
         ELSE <<s[i]>> \o filterHopsNoBreak(s, i + 1, seen \cup {s[i].TTL})

\* the filter loop without the seen map
RECURSIVE filterHopsNoSeen(_, _, _)
filterHopsNoSeen(s, i, seen) ==
    IF i > Len(s) THEN <<>>
    ELSE IF s[i].Reached THEN <<s[i]>>
         ELSE <<s[i]>> \o filterHopsNoSeen(s, i + 1, seen)

RECURSIVE insertByTTL(_, _)
insertByTTL(s, h) ==
    IF s = <<>> THEN <<h>>
    ELSE IF s[Len(s)].TTL - h.TTL > 0
         THEN Append(insertByTTL(SubSeq(s, 1, Len(s) - 1), h), s[Len(s)])
         ELSE Append(s, h)

\* slices.SortFunc by a.TTL - b.TTL: an insertion sort, which is what the
\* library runs on slices of at most 12 elements (hops of equal TTL keep
\* their order of arrival)
RECURSIVE sortByTTL(_)
sortByTTL(s) ==
    IF s = <<>> THEN <<>>
    ELSE insertByTTL(sortByTTL(SubSeq(s, 1, Len(s) - 1)), s[Len(s)])

\* the loop over the sorted hops: first hop of every TTL, break after a
\* reached hop
RECURSIVE filterHops(_, _, _)
filterHops(s, i, seen) ==
    IF i > Len(s) THEN <<>>
    ELSE IF s[i].TTL \in seen THEN filterHops(s, i + 1, seen)
         ELSE IF s[i].Reached THEN <<s[i]>>
              ELSE <<s[i]>> \o filterHops(s, i + 1, seen \cup {s[i].TTL})

\* a collectResults that drops the hops without an answer
collectResultsNoStar(read) ==
    LET nz == SelectSeq(read, LAMBDA h : h.TTL # 0 /\ h.Addr.IP # "*")
    IN  IF Len(nz) = 0 THEN nz ELSE filterHops(sortByTTL(nz), 1, {})

\* collectResults applied to the hops read from the channel, in arrival order
collectResults(read) ==
    LET nz == SelectSeq(read, LAMBDA h : h.TTL # 0)
    IN  IF Len(nz) = 0 THEN nz ELSE filterHops(sortByTTL(nz), 1, {})

\* slices.SortFunc runs the insertion sort on slices of at most this length
maxInsertion == 12

\* the hops of the slice that may stand first among the hops of their TTL
\* after the sort: per TTL any position of the sorted slice with that TTL
FirstChoices(t) ==
    {c \in [{t[i].TTL : i \in 1..Len(t)} -> 1..Len(t)] :
        \A x \in DOMAIN c : t[c[x]].TTL = x}

\* the TTL-sorted slice t with the chosen hop of every TTL moved in front of
\* the other hops of its TTL
MoveToFront(t, c) ==
    [i \in 1..Len(t) |->
        LET lo == CHOOSE j \in 1..Len(t) :
                     /\ t[j].TTL = t[i].TTL
                     /\ \A k \in 1..(j - 1) : t[k].TTL # t[i].TTL
            p  == c[t[i].TTL]
        IN  IF i = lo THEN t[p] ELSE IF i <= p THEN t[i - 1] ELSE t[i]]

\* slices.SortFunc: the slices the sort may leave.  Up to maxInsertion
\* elements it is the insertion sort.  Above, the sort is not stable (the
\* partition step swaps the pivot to the front of its range), so hops of
\* equal TTL come out in an order of the library's choosing; of these orders
\* the ones listed differ in the hop that stands first for a TTL, which is
\* all the filter loop reads.
SortFunc(s) ==
    IF Len(s) <= maxInsertion THEN {sortByTTL(s)}
    ELSE {MoveToFront(sortByTTL(s), c) : c \in FirstChoices(sortByTTL(s))}

\* collectResults: the slices it may return for the hops read from the
\* channel
collectResultsOutcomes(read) ==
    LET nz == SelectSeq(read, LAMBDA h : h.TTL # 0)
    IN  IF Len(nz) <= maxInsertion THEN {collectResults(read)}
        ELSE {filterHops(srt, 1, {}) : srt \in SortFunc(nz)}

\* ------------------------------------------------------------------ network
\* What the network may do to the probes of each TTL (an input of the run).
\* AnyNet: any outcome for every probe, the ICMP replies coming from the
\* routers that drop the probe and from the target itself.
AnyNet == [t \in TTLs |-> Outcomes \ {"portUnreachableOther", "writeErr"}]

\* a network with a gateway that may reject the segment of any probe with a
\* port-unreachable reply of its own
GatewayNet == [t \in TTLs |-> {"timeExceeded", "portUnreachableOther", "connect"}]

\* scenario S1: routers answer below TTL n, the target accepts from TTL n on
S1Net(n) == [t \in TTLs |-> IF t < n THEN {"timeExceeded"} ELSE {"connect"}]

\* scenario S2: routers answer below TTL n with TimeExceeded, from TTL n on
\* the target answers with DestinationUnreachable/Port
S2Net(n) == [t \in TTLs |-> IF t < n THEN {"timeExceeded"} ELSE {"portUnreachable"}]

\* every probe: EHOSTUNREACH and no ICMP reply before the deadline
TimeoutNet == [t \in TTLs |-> {"deadline"}]

\* every probe: EHOSTUNREACH and the raw ICMP socket cannot be opened (EPERM)
EPermNet == [t \in TTLs |-> {"icmpNotAvailable"}]

Networks == {AnyNet, GatewayNet, TimeoutNet, EPermNet} \cup {S1Net(n) : n \in TTLs}

\* ------------------------------------------------------------------ workers
\* a worker that hopper.run has not started yet
NewWorker == [pc |-> "new", r |-> 0, sent |-> 0, ret |-> "none", arg |-> NoTarget]

\* a loop that allows one attempt more
retryDoneOneMore(err, r, count) == err = 0 \/ r > count + 1

\* helper.Retry: err == nil || r > rc.Count (err is 0 for nil)
retryDone(err, r, count) == err = 0 \/ r > count

\* a Retry that goes on until the retries are used up
retryReturnsExhausted(failed, r) == r > RetryCount

\* helper.Retry: whether the loop returns after the attempt of iteration r
retryReturns(failed, r) == retryDone(IF failed THEN 1 ELSE 0, r, RetryCount)

\* math.Pow(2, n) converted to time.Duration, n >= 0
RECURSIVE Pow2(_)
Pow2(n) == IF n <= 0 THEN 1 ELSE 2 * Pow2(n - 1)

\* a backoff whose first delay is twice the initial delay
getExpBackoffDoubled(initialDelay, iteration) ==
    IF iteration <= 0 THEN initialDelay ELSE Pow2(iteration) * initialDelay

\* getExpBackoff
getExpBackoff(initialDelay, iteration) ==
    IF iteration <= 1 THEN initialDelay
    ELSE Pow2(iteration - 1) * initialDelay

\* a backoff that sleeps instead of selecting
backoffCasesSleep(done, delay) == {"timer"}

\* helper.Retry: the cases of the backoff select that are ready when the
\* select is evaluated; the timer of time.After(delay) has fired by then
\* when the delay is zero
backoffCases(done, delay) ==
    (IF done THEN {"ctx"} ELSE {}) \cup (IF delay <= 0 THEN {"timer"} ELSE {})

\* a hopper that does not wait for its workers
hopperMayCloseNoWait == TRUE

\* h.wg.Wait() returns
hopperMayClose == hwg = 0

\* a trace that writes a star hop before it returns an error
traceSendsOnError(t, o) ==
    IF traceOk(t, o) THEN <<traceHop(t, o)>>
    ELSE <<Hop(t.hopTTL, HopAddress("*", 0), FALSE)>>

\* tcpClient.trace: the hops one call writes to hopChan
traceSends(t, o) ==
    IF traceOk(t, o) THEN <<traceHop(t, o)>> ELSE <<>>

\* tcpClient.trace: the call returns an error
traceFails(t, o) == ~traceOk(t, o)

\* the receivers of the per-protocol Run, which are the tracers of the hopper
Clients == {"tcpClient", "udpClient"}

\* h.client.trace(ctx, target, h.opts): the hops the call writes to the
\* channel of the target
tracerSends(c, t, o) ==
    IF c = "tcpClient" THEN traceSends(t, o)
    ELSE IF udpTraceError(t, o) = "nil" THEN <<udpTraceHop(t, o)>> ELSE <<>>

\* h.client.trace(ctx, target, h.opts): the call returns an error
tracerFails(c, t, o) ==
    IF c = "tcpClient" THEN traceFails(t, o) ELSE udpTraceError(t, o) # "nil"

\* h.client.trace for every receiver, every target clone (all targets have
\* the same address and port, and no tracer reads hopChan before it sends:
\* a clone is known by its protocol and its hopTTL) and every outcome: the
\* hops written and whether the call returns an error
tracerCalls ==
    [c \in Clients |-> [p \in {ProtocolTCP, ProtocolUDP} |->
        [ttl \in 0..(MaxTTL + 1) |-> [o \in Outcomes |->
            [sends |-> tracerSends(c, withHopTTL(RunTarget(p), ttl), o),
             fails |-> tracerFails(c, withHopTTL(RunTarget(p), ttl), o)]]]]]

\* h.client.trace(ctx, t, h.opts) in the network that does o to the probe
tracerCall(c, t, o) == tracerCalls[c][t.Protocol][t.hopTTL][o]

\* a client whose probes all read ICMP from a raw socket
newICMPListenerRaw(c) == "rawListener"

\* the listener a tracer reads its ICMP outcome from: tcpClient.newICMPListener
\* is newRawListener, udpClient.trace calls newErrQueueListener
newICMPListener(c) == IF c = "tcpClient" THEN "rawListener" ELSE "errQueueListener"

\* ------------------------------------------------------------------ targets
\* the protocols genericClient.Run starts a sub-run for
SubProtocols == {ProtocolTCP, ProtocolUDP}

\* Protocol.IsValid: slices.Contains(valid, p) with valid = {ProtocolTCP}
ValidProtocols == {ProtocolTCP}

IsValid(p) == p \in ValidProtocols

\* the targets a caller may hand to Run
Target(p, a, port) == [Protocol |-> p, Address |-> a, Port |-> port]

TargetSet == {Target(p, a, port) : p \in {ProtocolTCP, ProtocolUDP, "icmp"},
                                   a \in {"", "example.com"},
                                   port \in {-1, 53, 65536}}

\* Target.Validate: the error, "nil" for none
Validate(t) ==
    IF t.Address = "" THEN "target address cannot be empty"
    ELSE IF ~IsValid(t.Protocol) THEN "invalid target protocol"
    ELSE IF t.Port < 0 \/ t.Port > 65535 THEN "invalid target port"
    ELSE "nil"

\* a groupTargets that validates the first target only
groupTargetsFailsFirst(ts) == ts # <<>> /\ Validate(ts[1]) # "nil"

\* groupTargets: whether the loop returns an error
groupTargetsFails(ts) == \E i \in 1..Len(ts) : Validate(ts[i]) # "nil"

\* groupTargets: the positions (in the list) of the targets of a protocol
groupTargets(ts, p) == {i \in 1..Len(ts) : ts[i].Protocol = p}

\* Run has not returned
NoReturn == [state |-> "none", resNil |-> TRUE, res |-> <<>>, err |-> "nil"]

\* return nil, err
ReturnErr(e) == [state |-> "err", resNil |-> TRUE, res |-> <<>>, err |-> e]

\* return res, nil
ReturnOk(r) == [state |-> "ok", resNil |-> FALSE, res |-> r, err |-> "nil"]

ClientIdle ==
    /\ targets = <<>>
    /\ cpc = "off"
    /\ sub = [p \in SubProtocols |-> "off"]
    /\ rwg = 0
    /\ resCh = <<>>
    /\ errsCh = <<>>
    /\ resClosed = FALSE
    /\ errsClosed = FALSE
    /\ closer = "off"
    /\ acc = <<>>
    /\ ret = NoReturn
    /\ subErr = {}

\* no call of trace on its own
NoProbe ==
    [client |-> "none", t |-> NoTarget, pc |-> "off", opened |-> {},
     deferred |-> <<>>, closed |-> {}, attempt |-> 0, allocs |-> 0, ilId |-> 0,
     past |-> {}, drawn |-> 0, firstPort |-> 0, lastPort |-> 0, inUse |-> 0,
     port |-> 0, dial |-> "none", listener |-> "none", il |-> NoListener,
     q |-> <<>>,
     end |-> "none", pkt |-> NoPacket("none"), hops |-> <<>>, ret |-> "none"]

\* no call of errQueueListener.Read on its own
NoRead ==
    [pc |-> "off", hasDeadline |-> FALSE, sock |-> "none", queue |-> <<>>,
     pending |-> <<>>, arrived |-> <<>>, done |-> "nil", expired |-> FALSE,
     calls |-> 0, errs |-> {},
     recvs |-> 0, pkt |-> NoPacket("none"), err |-> "none", hop |-> NoHop,
     ret |-> "none"]

\* no per-protocol Run
NoRun == [client |-> "none", maxTTL |-> 0, targets |-> <<>>]

\* tcpClient.Run with Options.MaxTTL = MaxTTL and NumTargets TCP targets
TCPRun ==
    [client |-> "tcpClient", maxTTL |-> MaxTTL,
     targets |-> [i \in 1..NumTargets |-> RunTarget(ProtocolTCP)]]

\* the target of the hopper of the current loop iteration: the copy of the
\* loop variable with hopChan set to the channel made in this iteration
HopperTarget == [run.targets[ti] EXCEPT !.hopChan = ti]

\* Retry has not returned
NoRetryReturn == [kind |-> "none", err |-> 0]

NoStop == [set |-> FALSE, calls |-> 0, last |-> FALSE, elapsed |-> FALSE]

RetryIdle ==
    /\ rc = [Count |-> 0, Delay |-> 0]
    /\ retryPc = "off"
    /\ retryR = 0
    /\ calls = 0
    /\ lastErr = 0
    /\ delays = <<>>
    /\ retryRet = NoRetryReturn
    /\ stop = NoStop

\* no per-protocol Run is in progress
RunOff ==
    /\ run = NoRun
    /\ probe = NoProbe
    /\ lis = NoRead
    /\ rpc = "off"
    /\ ti = 1
    /\ net = AnyNet
    /\ hpc = "idle"
    /\ spawned = 0
    /\ hwg = 0
    /\ w = [t \in TTLs |-> NewWorker]
    /\ hopChan = <<>>
    /\ chClosed = FALSE
    /\ chPanic = FALSE
    /\ hops = <<>>
    /\ res = <<>>

Init ==
    /\ run = TCPRun
    /\ probe = NoProbe
    /\ lis = NoRead
    /\ rpc = "loop"
    /\ ti = 1
    /\ net \in Networks
    /\ hpc = "idle"
    /\ spawned = 0
    /\ hwg = 0
    /\ w = [t \in TTLs |-> NewWorker]
    /\ hopChan = <<>>
    /\ chClosed = FALSE
    /\ chPanic = FALSE
    /\ hops = <<>>
    /\ res = <<>>
    /\ ctxDone = FALSE
    /\ feed = <<>>
    /\ ClientIdle
    /\ RetryIdle

\* tcpClient.Run, head of the loop body: make(chan Hop, opts.MaxTTL), start the
\* hopper goroutine and enter collectResults
RunNextTarget ==
    /\ rpc = "loop"
    /\ ti <= Len(run.targets)
    /\ rpc' = "collect"
    /\ hpc' = IF run.maxTTL = 0 THEN "wait" ELSE "spawn"
    /\ spawned' = 0
    /\ hwg' = 0
    /\ w' = [t \in TTLs |-> NewWorker]
    /\ hopChan' = <<>>
    /\ chClosed' = FALSE
    /\ hops' = <<>>
    /\ UNCHANGED <<lis, probe, run, ti, net, chPanic, res, ctxDone, feed, clientVars, retryVars>>

\* hopper.run: one iteration of the loop, wg.Add(1) and go func(); after the
\* last iteration run returns and the goroutine of Run reaches h.wg.Wait()
HopperSpawn ==
    /\ hpc = "spawn"
    /\ spawned < run.maxTTL
    /\ spawned' = spawned + 1
    /\ hwg' = hwg + 1
    /\ w' = [w EXCEPT ![spawned + 1] = [@ EXCEPT !.pc = "trace", !.r = 1]]
    /\ hpc' = IF spawned + 1 = run.maxTTL THEN "wait" ELSE "spawn"
    /\ UNCHANGED <<lis, probe, run, rpc, ti, net, hopChan, chClosed, chPanic, hops, res, ctxDone,
                   feed, clientVars, retryVars>>

\* h.wg.Wait() returns and the goroutine of Run closes the channel
HopperClose ==
    /\ hpc = "wait"
    /\ hopperMayClose
    /\ chClosed' = TRUE
    /\ hpc' = "done"
    /\ UNCHANGED <<lis, probe, run, rpc, ti, net, spawned, hwg, w, hopChan, chPanic, hops, res,
                   ctxDone, feed, clientVars, retryVars>>

\* One call of the effector by Retry in iteration w[ttl].r: the tracer gets a
\* clone of the target with the worker's TTL and probes, the network decides the outcome o, trace writes its hops to hopChan
\* and returns; then Retry returns (the worker runs wg.Done) or goes to its
\* backoff select.  A send that finds the channel full leaves the worker
\* blocked in trace; a send on the closed channel panics.
Trace(ttl, o) ==
    /\ w[ttl].pc = "trace"
    /\ o \in net[ttl]
    /\ LET t       == withHopTTL(HopperTarget, ttl)
           s       == tracerCall(run.client, t, o).sends
           failed  == tracerCall(run.client, t, o).fails
           blocked == Len(hopChan) + Len(s) > run.maxTTL
           wr      == [w[ttl] EXCEPT !.sent = @ + Len(s), !.arg = t]
       IN  IF s # <<>> /\ chClosed
           THEN /\ chPanic' = TRUE
                /\ UNCHANGED <<w, hwg, hopChan>>
           ELSE IF blocked
           THEN /\ w' = [w EXCEPT ![ttl] = [@ EXCEPT !.pc = "blocked"]]
                /\ UNCHANGED <<hwg, hopChan, chPanic>>
           ELSE /\ hopChan' = hopChan \o s
                /\ chPanic' = chPanic
                /\ IF retryReturns(failed, wr.r)
                   THEN /\ w' = [w EXCEPT ![ttl] =
                                   [wr EXCEPT !.pc = "done", !.r = 0,
                                              !.ret = IF failed THEN "err"
                                                      ELSE "nil"]]
                        /\ hwg' = hwg - 1
                   ELSE /\ w' = [w EXCEPT ![ttl] = [wr EXCEPT !.pc = "backoff"]]
                        /\ hwg' = hwg
    /\ UNCHANGED <<lis, probe, run, rpc, ti, net, hpc, spawned, chClosed, hops, res, ctxDone,
                   feed, clientVars, retryVars>>

\* Retry: time.After(delay) wins the select, next iteration
BackoffElapsed(ttl) ==
    /\ w[ttl].pc = "backoff"
    /\ w' = [w EXCEPT ![ttl] = [@ EXCEPT !.pc = "trace", !.r = @ + 1]]
    /\ UNCHANGED <<lis, probe, run, rpc, ti, net, hpc, spawned, hwg, hopChan, chClosed, chPanic,
                   hops, res, ctxDone, feed, clientVars, retryVars>>

\* Retry: ctx.Done() wins the select, Retry returns ctx.Err()
BackoffCancelled(ttl) ==
    /\ w[ttl].pc = "backoff"
    /\ ctxDone
    /\ w' = [w EXCEPT ![ttl] = [@ EXCEPT !.pc = "done", !.r = 0, !.ret = "ctx"]]
    /\ hwg' = hwg - 1
    /\ UNCHANGED <<lis, probe, run, rpc, ti, net, hpc, spawned, hopChan, chClosed, chPanic, hops,
                   res, ctxDone, feed, clientVars, retryVars>>

\* collectResults: one iteration of "for hop := range ch"
CollectRecv ==
    /\ rpc = "collect"
    /\ hopChan # <<>>
    /\ hops' = Append(hops, Head(hopChan))
    /\ hopChan' = Tail(hopChan)
    /\ UNCHANGED <<lis, probe, run, rpc, ti, net, hpc, spawned, hwg, w, chClosed, chPanic, res,
                   ctxDone, feed, clientVars, retryVars>>

\* a range loop that ends as soon as the channel is empty
rangeEndsWhenEmpty == hopChan = <<>>

\* "for hop := range ch" ends: the channel is closed and drained
rangeEnds == hopChan = <<>> /\ chClosed

\* collectResults: the channel is closed and drained; sort, filter, return;
\* Run stores the list under the target
CollectReturn ==
    /\ rpc = "collect"
    /\ rangeEnds
    /\ \E out \in collectResultsOutcomes(hops) : res' = Append(res, out)
    /\ ti' = ti + 1
    /\ rpc' = "loop"
    /\ UNCHANGED <<lis, probe, run, net, hpc, spawned, hwg, w, hopChan, chClosed, chPanic, hops,
                   ctxDone, feed, clientVars, retryVars>>

\* tcpClient.Run: the loop is over, return res, nil
RunReturn ==
    /\ rpc = "loop"
    /\ ti > Len(run.targets)
    /\ rpc' = "returned"
    /\ UNCHANGED <<lis, probe, run, ti, net, hpc, spawned, hwg, w, hopChan, chClosed, chPanic, hops,
                   res, ctxDone, feed, clientVars, retryVars>>

\* the caller cancels the context
Cancel ==
    /\ ~ctxDone
    /\ rpc # "returned"
    /\ ctxDone' = TRUE
    /\ UNCHANGED <<runVars, feed, clientVars, retryVars>>

Next ==
    \/ RunNextTarget
    \/ HopperSpawn
    \/ HopperClose
    \/ \E ttl \in TTLs, o \in Outcomes : Trace(ttl, o)
    \/ \E ttl \in TTLs : BackoffElapsed(ttl)
    \/ \E ttl \in TTLs : BackoffCancelled(ttl)
    \/ CollectRecv
    \/ CollectReturn
    \/ RunReturn
    \/ Cancel

Spec == Init /\ [][Next]_vars

\* ------------------------------------------- per-protocol Run of either client
\* tcpClient.Run or udpClient.Run with a list of targets of either protocol,
\* with any Options.MaxTTL up to MaxTTL, in the networks of scenario S2.

\* the target lists handed to the per-protocol Run
RunTargetLists ==
    [1..(NumTargets + 1) -> {RunTarget(ProtocolTCP), RunTarget(ProtocolUDP)}]

InitRuns ==
    /\ run \in {[client |-> c, maxTTL |-> m, targets |-> ts] :
                    c \in Clients, m \in 0..MaxTTL, ts \in RunTargetLists}
    /\ probe = NoProbe
    /\ lis = NoRead
    /\ rpc = "loop"
    /\ ti = 1
    /\ net \in {S2Net(n) : n \in TTLs}
    /\ hpc = "idle"
    /\ spawned = 0
    /\ hwg = 0
    /\ w = [t \in TTLs |-> NewWorker]
    /\ hopChan = <<>>
    /\ chClosed = FALSE
    /\ chPanic = FALSE
    /\ hops = <<>>
    /\ res = <<>>
    /\ ctxDone = FALSE
    /\ feed = <<>>
    /\ ClientIdle
    /\ RetryIdle

SpecRuns == InitRuns /\ [][Next]_vars

\* ------------------------------------------------------- one call of a tracer
\* tcpClient.trace or udpClient.trace, called once with a clone of a target
\* of either protocol: every step draws what the network or the kernel does
\* at that point.

\* the ICMP messages that may arrive while the probe with the TTL reads:
\* answers to this probe and to a probe sent from another local port, whole,
\* cut off after the inner IP header or cut off within it
ProbeMessages(ttl) ==
    {Message("TimeExceeded", 0, RouterIP(ttl), p) : p \in {ProbePort, OtherPort}}
    \cup {Message("DestinationUnreachable", icmpUnreachablePort, TargetIP, p) :
            p \in {ProbePort, OtherPort}}
    \cup {Message("DestinationUnreachable", icmpUnreachableHost, RouterIP(ttl),
                  ProbePort),
          Message("EchoReply", 0, TargetIP, ProbePort),
          ShortMessage("TimeExceeded", 0, RouterIP(ttl)),
          TruncatedMessage("TimeExceeded", 0, RouterIP(ttl))}

\* the outcomes that differ in how the context of the read ends: its
\* deadline passes, or the caller cancels it
ReadOutcomes == {"deadline", "readErr"}

\* the messages that arrive, in their order, before the context is done
ProbeQueues(ttl) ==
    UNION {[1..n -> ProbeMessages(ttl)] : n \in 0..MaxQueue}

\* the variables of the other specifications
noProbeVars ==
    <<lis, run, net, rpc, ti, hpc, spawned, hwg, w, hopChan, chClosed, chPanic, hops, res,
      ctxDone, feed, clientVars, retryVars>>

InitProbe ==
    /\ probe \in {[NoProbe EXCEPT !.client = c, !.pc = "start",
                                   !.t = [withHopTTL(RunTarget(p), ttl)
                                              EXCEPT !.hopChan = 1]] :
                      c \in Clients, p \in {ProtocolTCP, ProtocolUDP}, ttl \in TTLs}
    /\ lis = NoRead
    /\ run = NoRun
    /\ rpc = "off"
    /\ ti = 1
    /\ net = AnyNet
    /\ hpc = "idle"
    /\ spawned = 0
    /\ hwg = 0
    /\ w = [t \in TTLs |-> NewWorker]
    /\ hopChan = <<>>
    /\ chClosed = FALSE
    /\ chPanic = FALSE
    /\ hops = <<>>
    /\ res = <<>>
    /\ ctxDone = FALSE
    /\ feed = <<>>
    /\ ClientIdle
    /\ RetryIdle

\* trace returns err without another step
ProbeReturn(err) == [probe EXCEPT !.pc = "returned", !.ret = err]

\* a Close of the ICMP listener that leaves its socket open
deferCloseConnOnly(d, p) ==
    CASE d = "conn.Close" -> p.opened \cap {"tcpSocket"}
      [] d = "nc.Close"   -> {"udpSocket"}
      [] OTHER            -> {}

\* the sockets the deferred call d closes in the call p of trace:
\* conn.Close() closes the TCP connection if there is one, nc.Close() the
\* UDP socket, il.Close() of a rawListener its ICMP socket if it has one,
\* listener.Close() of an errQueueListener the connection it wraps
deferClose(d, p) ==
    CASE d = "conn.Close" -> p.opened \cap {"tcpSocket"}
      [] d = "nc.Close"   -> {"udpSocket"}
      [] d = "il.Close"   -> IF p.listener = "rawListener"
                             THEN IF p.il.canICMP THEN {"rawICMPSocket"} ELSE {}
                             ELSE {"udpSocket"}

\* the deferred calls run when trace returns
runDefers(p) ==
    IF p.pc = "returned"
    THEN [p EXCEPT !.closed = UNION {deferClose(p.deferred[i], p) :
                                         i \in 1..Len(p.deferred)}]
    ELSE p

\* target.ToAddr()
ProbeToAddr ==
    /\ probe.pc = "start"
    /\ probe' = runDefers(IF ToAddr(probe.t) # "nil"
                          THEN ProbeReturn("failed to convert target to address")
                          ELSE [probe EXCEPT !.pc = "dial"])
    /\ UNCHANGED noProbeVars

\* c.dialTCP or c.dialUDP with the port randomPort draws for n; the port is
\* taken (EADDRINUSE) when inUse.  dialTCP calls itself on EADDRINUSE, which
\* is the next attempt.  tcpClient: a connection is the hop that reached the
\* target; another error than EHOSTUNREACH is returned by recordTCPError.
\* dialUDP returns every error of the dialer.
ProbeDial(o, n, inUse) ==
    /\ probe.pc = "dial"
    /\ inUse => probe.inUse < MaxRedials
    /\ probe' =
        LET drawn == [probe EXCEPT !.drawn = @ + 1,
                                   !.firstPort = IF probe.drawn = 0
                                                 THEN randomPort(n) ELSE @,
                                   !.lastPort = randomPort(n),
                                   !.inUse = IF inUse THEN @ + 1 ELSE @]
            err   == DialContext(o, inUse)
            conn  == [drawn EXCEPT !.port = dialTCPPort(drawn.firstPort,
                                                        drawn.lastPort),
                                   !.dial = err,
                                   !.deferred = Append(@, "conn.Close")]
        IN  runDefers(
            IF probe.client = "tcpClient"
            THEN IF dialTCPRedials(err) THEN drawn
                 ELSE IF err = "nil"
                 THEN [conn EXCEPT !.pc = "returned", !.ret = "nil",
                                   !.opened = @ \cup {"tcpSocket"},
                                   !.hops = Append(@, Hop(probe.t.hopTTL,
                                                          HopAddress(probe.t.Address,
                                                                     probe.t.Port),
                                                          TRUE))]
                 ELSE IF recordTCPError(err) # "nil"
                 THEN [conn EXCEPT !.pc = "returned", !.ret = recordTCPError(err)]
                 ELSE [conn EXCEPT !.pc = "listen"]
            ELSE IF inUse \/ dialUDP(o) # "nil"
                 THEN [drawn EXCEPT !.pc = "returned",
                                    !.ret = "failed to dial UDP connection",
                                    !.dial = IF inUse THEN "EADDRINUSE"
                                             ELSE dialUDP(o)]
                 ELSE [drawn EXCEPT !.pc = "listen", !.dial = "nil",
                                    !.port = randomPort(n),
                                    !.deferred = Append(@, "nc.Close"),
                                    !.opened = @ \cup {"udpSocket"}])
    /\ UNCHANGED noProbeVars

\* c.newICMPListener(conn.port) of tcpClient.trace, newErrQueueListener(nc.Conn,
\* nc.port) of udpClient.trace.  Only icmp.ListenPacket opens a socket.
ProbeListen(o) ==
    /\ probe.pc = "listen"
    /\ probe' =
        LET next == IF probe.client = "tcpClient" THEN "read" ELSE "write"
            made == [probe EXCEPT !.pc = next, !.allocs = @ + 1,
                                  !.ilId = probe.allocs + 1,
                                  !.deferred = Append(@, "il.Close")]
        IN  runDefers(
            IF newICMPListener(probe.client) = "rawListener"
            THEN LET il == newRawListener(probe.port, ListenPacket(o))
                 IN  IF il.err # "nil"
                     THEN ProbeReturn("failed to create ICMP listener")
                     ELSE [made EXCEPT !.listener = "rawListener",
                                       !.il = il,
                                       !.opened = IF il.canICMP
                                                  THEN @ \cup {"rawICMPSocket"}
                                                  ELSE @]
            ELSE LET il == newErrQueueListener(probe.port)
                 IN  IF il.err # "nil"
                     THEN ProbeReturn("failed creating errQueueListener")
                     ELSE [made EXCEPT !.listener = "errQueueListener",
                                       !.il = [canICMP |-> FALSE,
                                               recvPort |-> il.recvPort,
                                               err |-> il.err]])
    /\ UNCHANGED noProbeVars

\* udpClient.trace: nc.Write([]byte{0})
ProbeWrite(o) ==
    /\ probe.pc = "write"
    /\ probe' = runDefers(IF Write(o) # "nil"
                          THEN ProbeReturn("failed sending UDP probe")
                          ELSE [probe EXCEPT !.pc = "read"])
    /\ UNCHANGED noProbeVars

\* il.Read(ctx) and the switch on its error: the messages of q arrive before
\* the context is done with the ctx.Err() of outcome o
ProbeRead(q, o) ==
    /\ probe.pc = "read"
    /\ probe' =
        LET pkt == IF probe.listener = "rawListener"
                   THEN rawListenerRead(probe.il, q, ctxErr(o))
                   ELSE errQueueListenerRead(q, ctxDoneErr(o))
            read == [probe EXCEPT !.pc = "returned", !.q = q, !.pkt = pkt,
                                  !.end = IF probe.listener = "rawListener"
                                          THEN ctxErr(o) ELSE ctxDoneErr(o)]
        IN  runDefers(
            IF pkt.err = SliceBoundsPanic
            THEN [read EXCEPT !.pc = "panicked"]
            ELSE IF probe.client = "tcpClient" /\ pkt.err = "errICMPNotAvailable"
            THEN [read EXCEPT !.ret = "ICMP not available for reading"]
            ELSE IF pkt.err = "context.DeadlineExceeded"
            THEN [read EXCEPT !.ret = "nil",
                              !.hops = Append(@, Hop(probe.t.hopTTL,
                                                     HopAddress("*", 0), FALSE))]
            ELSE IF pkt.err # "nil"
            THEN [read EXCEPT !.ret = "failed to read ICMP message"]
            ELSE [read EXCEPT !.ret = "nil",
                              !.hops = Append(@, Hop(probe.t.hopTTL,
                                                     HopAddress(pkt.remoteAddr, 0),
                                                     pkt.reached))])
    /\ UNCHANGED noProbeVars

\* helper.Retry calls trace again after an error: a new call for the same
\* target, in a process that has allocated the listeners of the calls before
ProbeAgain ==
    /\ probe.pc = "returned"
    /\ probe.ret # "nil"
    /\ probe.attempt < RetryCount
    /\ probe' = [NoProbe EXCEPT !.client = probe.client, !.t = probe.t,
                                !.pc = "start",
                                !.attempt = probe.attempt + 1,
                                !.allocs = probe.allocs,
                                !.past = probe.past \cup ({probe.ilId} \ {0})]
    /\ UNCHANGED noProbeVars

NextProbe ==
    \/ ProbeToAddr
    \/ \E o \in Outcomes : \E n \in Draws : \E inUse \in BOOLEAN :
           ProbeDial(o, n, inUse)
    \/ \E o \in Outcomes : ProbeListen(o)
    \/ \E o \in Outcomes : ProbeWrite(o)
    \/ /\ probe.pc = "read"
       /\ \E q \in ProbeQueues(probe.t.hopTTL) : \E o \in ReadOutcomes :
              ProbeRead(q, o)
    \/ ProbeAgain

SpecProbe == InitProbe /\ [][NextProbe]_vars

\* -------------------------------------------------- errQueueListener.Read
\* One call of errQueueListener.Read, step by step, followed by the switch
\* of udpClient.trace on what it returned.  The context of the call may
\* carry a deadline or none, it may be cancelled, and ICMP errors may reach
\* the error queue of the socket while the call runs.

\* the messages the kernel may put on the error queue of the probe's socket
ErrQueueMessages ==
    {Message("TimeExceeded", 0, RouterIP(1), ProbePort),
     Message("DestinationUnreachable", icmpUnreachablePort, TargetIP, ProbePort),
     Message("TimeExceeded", 0, RouterIP(1), OtherPort),
     Message("EchoReply", 0, TargetIP, ProbePort),
     ShortMessage("TimeExceeded", 0, RouterIP(1))}

\* the sequences of at most n messages
ErrQueueSeqs(n) == UNION {[1..k -> ErrQueueMessages] : k \in 0..n}

\* the sockets: one that works, one whose every recvmsg fails with an error
\* other than EAGAIN, one whose SetReadDeadline fails
Sockets == {"ok", "recvErr", "setDeadlineErr"}

\* a switch that takes every error of Read for a timeout
udpReadSwitchStar(ttl, pkt) ==
    IF pkt.err # "nil"
    THEN [hop |-> Hop(ttl, HopAddress("*", 0), FALSE), ret |-> "nil"]
    ELSE [hop |-> Hop(ttl, HopAddress(pkt.remoteAddr, 0), pkt.reached),
          ret |-> "nil"]

\* the switch of udpClient.trace on the error of listener.Read: the hop it
\* writes (NoHop for none) and what trace returns
udpReadSwitch(ttl, pkt) ==
    IF pkt.err = "context.DeadlineExceeded"
    THEN [hop |-> Hop(ttl, HopAddress("*", 0), FALSE), ret |-> "nil"]
    ELSE IF pkt.err # "nil"
    THEN [hop |-> NoHop, ret |-> "failed to read ICMP message"]
    ELSE [hop |-> Hop(ttl, HopAddress(pkt.remoteAddr, 0), pkt.reached),
          ret |-> "nil"]

\* Read returns pkt: its fields and the outcome of the caller's switch
ReadReturn(pkt) ==
    [lis EXCEPT !.pc = "returned", !.pkt = pkt, !.err = pkt.err,
                !.hop = udpReadSwitch(1, pkt).hop,
                !.ret = udpReadSwitch(1, pkt).ret]

\* recvMsg on the socket with MSG_ERRQUEUE: the errno of the recvmsg (EAGAIN,
\* which is EWOULDBLOCK, on an empty queue), the error for a message too
\* small for a UDP header, "nil" for a message
recvMsg(sock, queue) ==
    IF sock = "recvErr" THEN "EIO"
    ELSE IF queue = <<>> THEN "EAGAIN"
    ELSE IF Head(queue).Short THEN "received packet too small for UDP header"
    ELSE "nil"

\* opErr of recvPacket: the error of recvMsg or else of parseExtendedErr
recvOpErr(sock, queue) ==
    IF recvMsg(sock, queue) # "nil" THEN recvMsg(sock, queue)
    ELSE parseExtendedErr(Head(queue)).err

\* a recvPacket that wraps EAGAIN like any other error
recvPacketErrWrapAll(hasDeadline, sock, queue) ==
    IF ~hasDeadline THEN "context.Canceled"
    ELSE IF sock = "setDeadlineErr" THEN "failed to set read deadline"
    ELSE IF recvOpErr(sock, queue) = "nil" THEN "nil"
    ELSE "failed to read ICMP error"

\* a recvPacket that reports every failure of the socket as a timeout
recvPacketErrAllTimeout(hasDeadline, sock, queue) ==
    IF ~hasDeadline THEN "context.Canceled"
    ELSE IF sock = "setDeadlineErr" THEN "context.DeadlineExceeded"
    ELSE IF recvOpErr(sock, queue) = "nil" THEN "nil"
    ELSE "context.DeadlineExceeded"

\* the error of one recvPacket for the state of the context, the socket and
\* its error queue: "nil" when the message at the head of the queue parses
recvPacketErr(hasDeadline, sock, queue) ==
    IF ~hasDeadline THEN "context.Canceled"
    ELSE IF sock = "setDeadlineErr" THEN "failed to set read deadline"
    ELSE IF recvOpErr(sock, queue) = "nil" THEN "nil"
    ELSE IF recvOpErr(sock, queue) = "EAGAIN" THEN "context.DeadlineExceeded"
    ELSE "failed to read ICMP error"

\* whether recvPacket gets as far as the recvmsg on the socket
recvPacketReads(hasDeadline, sock) == hasDeadline /\ sock # "setDeadlineErr"

\* the messages in the queue before the call and those that arrive later,
\* before the deadline of the context
ErrQueueInputs ==
    UNION {{[queue |-> SubSeq(q, 1, k), pending |-> SubSeq(q, k + 1, Len(q))] :
               k \in 0..Len(q)} : q \in ErrQueueSeqs(MaxQueue)}

InitErrQueue ==
    /\ lis \in {[NoRead EXCEPT !.pc = "select", !.hasDeadline = d, !.sock = s,
                                !.queue = i.queue, !.pending = i.pending,
                                !.arrived = i.queue] :
                    d \in BOOLEAN, s \in Sockets, i \in ErrQueueInputs}
    /\ probe = NoProbe
    /\ run = NoRun
    /\ rpc = "off"
    /\ ti = 1
    /\ net = AnyNet
    /\ hpc = "idle"
    /\ spawned = 0
    /\ hwg = 0
    /\ w = [t \in TTLs |-> NewWorker]
    /\ hopChan = <<>>
    /\ chClosed = FALSE
    /\ chPanic = FALSE
    /\ hops = <<>>
    /\ res = <<>>
    /\ ctxDone = FALSE
    /\ feed = <<>>
    /\ ClientIdle
    /\ RetryIdle

\* the variables of the other specifications
noReadVars ==
    <<probe, run, net, rpc, ti, hpc, spawned, hwg, w, hopChan, chClosed, chPanic,
      hops, res, ctxDone, feed, clientVars, retryVars>>

\* the head of the loop: select on ctx.Done() with a default
ReadSelect ==
    /\ lis.pc = "select"
    /\ lis' = IF lis.done # "nil" THEN ReadReturn(NoPacket(lis.done))
              ELSE [lis EXCEPT !.pc = "recv"]
    /\ UNCHANGED noReadVars

\* l.recvPacket(ctx) and the branch on its error: context.DeadlineExceeded
\* is returned, any other error is logged and the loop goes on
ReadRecvPacket ==
    /\ lis.pc = "recv"
    /\ lis.calls < MaxCalls
    /\ lis' =
        LET err  == recvPacketErr(lis.hasDeadline, lis.sock, lis.queue)
            reads == recvPacketReads(lis.hasDeadline, lis.sock)
            took == reads /\ lis.sock = "ok" /\ lis.queue # <<>>
            rcvd == [lis EXCEPT !.calls = @ + 1,
                                !.errs = IF reads
                                         THEN @ \cup {recvOpErr(lis.sock, lis.queue)}
                                         ELSE @,
                                !.recvs = IF reads THEN @ + 1 ELSE @,
                                !.queue = IF took THEN Tail(@) ELSE @]
        IN  IF err = "context.DeadlineExceeded"
            THEN [rcvd EXCEPT !.pc = "returned",
                              !.pkt = NoPacket("context.DeadlineExceeded"),
                              !.err = "context.DeadlineExceeded",
                              !.hop = udpReadSwitch(1, NoPacket(err)).hop,
                              !.ret = udpReadSwitch(1, NoPacket(err)).ret]
            ELSE IF err # "nil"
            THEN [rcvd EXCEPT !.pc = "select"]
            ELSE LET pkt == parseExtendedErr(Head(lis.queue))
                 IN  [rcvd EXCEPT !.pc = "returned", !.pkt = pkt, !.err = "nil",
                                  !.hop = udpReadSwitch(1, pkt).hop,
                                  !.ret = udpReadSwitch(1, pkt).ret]
    /\ UNCHANGED noReadVars

\* an ICMP error reaches the error queue before the deadline
ErrQueueArrive ==
    /\ lis.pc # "off"
    /\ lis.pending # <<>>
    /\ ~lis.expired
    /\ lis' = [lis EXCEPT !.queue = Append(@, Head(lis.pending)),
                          !.arrived = Append(@, Head(lis.pending)),
                          !.pending = Tail(@)]
    /\ UNCHANGED noReadVars

\* the deadline of the context passes
ReadDeadline ==
    /\ lis.pc # "off"
    /\ lis.hasDeadline
    /\ ~lis.expired
    /\ lis' = [lis EXCEPT !.expired = TRUE,
                          !.done = IF @ = "nil" THEN "context.DeadlineExceeded"
                                   ELSE @]
    /\ UNCHANGED noReadVars

\* the caller cancels the context while Read runs
ReadCancel ==
    /\ lis.pc \in {"select", "recv"}
    /\ lis.done = "nil"
    /\ lis' = [lis EXCEPT !.done = "context.Canceled"]
    /\ UNCHANGED noReadVars

NextErrQueue ==
    \/ ReadSelect
    \/ ReadRecvPacket
    \/ ErrQueueArrive
    \/ ReadDeadline
    \/ ReadCancel

SpecErrQueue == InitErrQueue /\ [][NextErrQueue]_vars

\* ---------------------------------------------------------- genericClient.Run
\* A Result is a function from the positions of the targets in the list
\* handed to Run to hop lists: the key of an entry is the Target value with
\* the hopChan made for it, so every target of the list has a key of its own.

\* hop lists a sub-run may return for a target
FragmentHops == {<<>>, <<Hop(1, HopAddress("*", 0), FALSE)>>}

\* the Results a per-protocol Run may return for the targets it was given: one
\* entry per target (tcpClient.Run, udpClient.Run)
Fragments(ts) == [ts -> FragmentHops]

\* for target, hops := range r { res[target] = hops }
mergeResult(a, r) ==
    [i \in (DOMAIN a) \cup (DOMAIN r) |-> IF i \in DOMAIN r THEN r[i] ELSE a[i]]

InitClient ==
    /\ run = NoRun
    /\ probe = NoProbe
    /\ lis = NoRead
    /\ rpc = "off"
    /\ ti = 1
    /\ net = AnyNet
    /\ hpc = "idle"
    /\ spawned = 0
    /\ hwg = 0
    /\ w = [t \in TTLs |-> NewWorker]
    /\ hopChan = <<>>
    /\ chClosed = FALSE
    /\ chPanic = FALSE
    /\ hops = <<>>
    /\ res = <<>>
    /\ ctxDone = FALSE
    /\ feed = <<>>
    /\ targets \in UNION {[1..n -> TargetSet] : n \in 0..MaxTargets}
    /\ cpc = "start"
    /\ sub = [p \in SubProtocols |-> "off"]
    /\ rwg = 0
    /\ resCh = <<>>
    /\ errsCh = <<>>
    /\ resClosed = FALSE
    /\ errsClosed = FALSE
    /\ closer = "off"
    /\ acc = <<>>
    /\ ret = NoReturn
    /\ subErr = {}
    /\ RetryIdle

\* genericClient.Run: groupTargets returns an error
RunInvalid ==
    /\ cpc = "start"
    /\ groupTargetsFails(targets)
    /\ ret' = ReturnErr("failed to group targets")
    /\ cpc' = "returned"
    /\ UNCHANGED <<retryVars, runVars, ctxDone, feed, targets, sub, rwg, resCh, errsCh,
                   resClosed, errsClosed, closer, acc, subErr>>

\* genericClient.Run: the targets are grouped, r.run starts one goroutine for
\* every protocol that has a group (wg.Add(1), go), then collect starts the
\* goroutine that waits and closes, and enters its loop
RunStart ==
    /\ cpc = "start"
    /\ ~groupTargetsFails(targets)
    /\ sub' = [p \in SubProtocols |->
                 IF groupTargets(targets, p) # {} THEN "running" ELSE "off"]
    /\ rwg' = Cardinality({p \in SubProtocols : groupTargets(targets, p) # {}})
    /\ closer' = "wait"
    /\ acc' = <<>>
    /\ cpc' = "collect"
    /\ UNCHANGED <<retryVars, runVars, ctxDone, feed, targets, resCh, errsCh, resClosed,
                   errsClosed, ret, subErr>>

\* goroutine of runner.run: f returns a Result, r.res <- res, wg.Done
SubRunResult(p, frag) ==
    /\ sub[p] = "running"
    /\ frag \in Fragments(groupTargets(targets, p))
    /\ Len(resCh) < Len(targets)
    /\ resCh' = Append(resCh, frag)
    /\ sub' = [sub EXCEPT ![p] = "done"]
    /\ rwg' = rwg - 1
    /\ UNCHANGED <<retryVars, runVars, ctxDone, feed, targets, cpc, errsCh, resClosed,
                   errsClosed, closer, acc, ret, subErr>>

\* goroutine of runner.run: f returns an error, r.errs <- err, wg.Done
\* (c.tcp and c.udp are Client interface values)
SubRunError(p) ==
    /\ sub[p] = "running"
    /\ Len(errsCh) < Len(targets)
    /\ errsCh' = Append(errsCh, "sub-run failed")
    /\ subErr' = subErr \cup {p}
    /\ sub' = [sub EXCEPT ![p] = "done"]
    /\ rwg' = rwg - 1
    /\ UNCHANGED <<retryVars, runVars, ctxDone, feed, targets, cpc, resCh, resClosed,
                   errsClosed, closer, acc, ret>>

\* a WaitGroup whose Wait never returns
wgWaitNever == FALSE

\* r.wg.Wait() returns: every goroutine of runner.run has run wg.Done
wgWaitReturns == rwg = 0

\* goroutine of collect: r.wg.Wait() returns, close(r.res)
CloseRes ==
    /\ closer = "wait"
    /\ wgWaitReturns
    /\ resClosed' = TRUE
    /\ closer' = "closeErrs"
    /\ UNCHANGED <<retryVars, runVars, ctxDone, feed, targets, cpc, sub, rwg, resCh, errsCh,
                   errsClosed, acc, ret, subErr>>

\* goroutine of collect: close(r.errs)
CloseErrs ==
    /\ closer = "closeErrs"
    /\ errsClosed' = TRUE
    /\ closer' = "done"
    /\ UNCHANGED <<retryVars, runVars, ctxDone, feed, targets, cpc, sub, rwg, resCh, errsCh,
                   resClosed, acc, ret, subErr>>

\* The select of collect takes any of its cases that is ready.  The case that
\* receives nil from the closed, empty r.errs changes nothing and is the
\* stuttering step.

\* case <-ctx.Done(): return nil, ctx.Err()
SelectCtxDone ==
    /\ cpc = "collect"
    /\ ctxDone
    /\ ret' = ReturnErr("context canceled")
    /\ cpc' = "returned"
    /\ UNCHANGED <<retryVars, runVars, ctxDone, feed, targets, sub, rwg, resCh, errsCh,
                   resClosed, errsClosed, closer, acc, subErr>>

\* case err := <-r.errs with an error in the channel: return nil, err
SelectErr ==
    /\ cpc = "collect"
    /\ errsCh # <<>>
    /\ ret' = ReturnErr(Head(errsCh))
    /\ errsCh' = Tail(errsCh)
    /\ cpc' = "returned"
    /\ UNCHANGED <<retryVars, runVars, ctxDone, feed, targets, sub, rwg, resCh, resClosed,
                   errsClosed, closer, acc, subErr>>

\* case r, ok := <-r.res with a Result in the channel: merge it into res
SelectRes ==
    /\ cpc = "collect"
    /\ resCh # <<>>
    /\ acc' = mergeResult(acc, Head(resCh))
    /\ resCh' = Tail(resCh)
    /\ UNCHANGED <<retryVars, runVars, ctxDone, feed, targets, cpc, sub, rwg, errsCh,
                   resClosed, errsClosed, closer, ret, subErr>>

\* case r, ok := <-r.res on the closed, drained channel: return res, nil
SelectResClosed ==
    /\ cpc = "collect"
    /\ resCh = <<>>
    /\ resClosed
    /\ ret' = ReturnOk(acc)
    /\ cpc' = "returned"
    /\ UNCHANGED <<retryVars, runVars, ctxDone, feed, targets, sub, rwg, resCh, errsCh,
                   resClosed, errsClosed, closer, acc, subErr>>

\* the caller cancels the context handed to genericClient.Run
CancelClient ==
    /\ ~ctxDone
    /\ cpc # "returned"
    /\ ctxDone' = TRUE
    /\ UNCHANGED <<runVars, feed, clientVars, retryVars>>

NextClient ==
    \/ RunInvalid
    \/ RunStart
    \/ \E p \in SubProtocols :
          \E frag \in Fragments(groupTargets(targets, p)) : SubRunResult(p, frag)
    \/ \E p \in SubProtocols : SubRunError(p)
    \/ CloseRes
    \/ CloseErrs
    \/ SelectCtxDone
    \/ SelectErr
    \/ SelectRes
    \/ SelectResClosed
    \/ CancelClient

SpecClient == InitClient /\ [][NextClient]_vars

\* a sub-run that was started returns, with a Result or with an error
SubRunReturns(p) ==
    \/ SubRunError(p)
    \/ \E frag \in Fragments(groupTargets(targets, p)) : SubRunResult(p, frag)

\* genericClient.Run with goroutines that are scheduled, a select that takes
\* every case that stays ready, and sub-runs that return
FairSpecClient ==
    /\ SpecClient
    /\ WF_vars(RunInvalid)
    /\ WF_vars(RunStart)
    /\ \A p \in SubProtocols : WF_vars(SubRunReturns(p))
    /\ WF_vars(CloseRes)
    /\ WF_vars(CloseErrs)
    /\ WF_vars(SelectCtxDone)
    /\ WF_vars(SelectErr)
    /\ WF_vars(SelectRes)
    /\ WF_vars(SelectResClosed)

\* ------------------------------------------------------ runner on its own
\* runner.run and runner.collect with the tasks genericClient.Run starts for
\* a groups map that has the key ProtocolTCP, the key ProtocolUDP or both:
\* the runner does not depend on how the map was built.

\* targets of the groups
RunnerTargets == {Target(p, "example.com", 53) : p \in SubProtocols}

InitRunner ==
    /\ RunOff
    /\ ctxDone = FALSE
    /\ feed = <<>>
    /\ RetryIdle
    /\ targets \in UNION {[1..n -> RunnerTargets] : n \in 1..MaxTargets}
    /\ cpc = "collect"
    /\ sub = [p \in SubProtocols |->
                IF groupTargets(targets, p) # {} THEN "running" ELSE "off"]
    /\ rwg = Cardinality({p \in SubProtocols : groupTargets(targets, p) # {}})
    /\ resCh = <<>>
    /\ errsCh = <<>>
    /\ resClosed = FALSE
    /\ errsClosed = FALSE
    /\ closer = "wait"
    /\ acc = <<>>
    /\ ret = NoReturn
    /\ subErr = {}

NextRunner ==
    \/ \E p \in SubProtocols :
          \E frag \in Fragments(groupTargets(targets, p)) : SubRunResult(p, frag)
    \/ \E p \in SubProtocols : SubRunError(p)
    \/ CloseRes
    \/ CloseErrs
    \/ SelectCtxDone
    \/ SelectErr
    \/ SelectRes
    \/ SelectResClosed
    \/ CancelClient

SpecRunner == InitRunner /\ [][NextRunner]_vars

\* ------------------------------------------- collectResults on its own
\* The channel of TestCollectResults: any hops, TTL 0 and repeated TTLs
\* included.  The address of a fed hop records its position of arrival.
FedHop(i, ttl, reached) == Hop(ttl, HopAddress(ToString(i), 0), reached)

RECURSIVE Feeds(_)
Feeds(n) ==
    IF n = 0 THEN {<<>>}
    ELSE LET shorter == Feeds(n - 1)
         IN  shorter \cup
             {Append(f, FedHop(n, ttl, reached)) :
                 f \in {g \in shorter : Len(g) = n - 1},
                 ttl \in 0..MaxTTL, reached \in BOOLEAN}

\* channels with more hops than the insertion sort takes: the hop at
\* position k has the largest TTL, every other hop has TTL 1
LongFeeds ==
    {[i \in 1..(maxInsertion + 1) |-> FedHop(i, IF i = k THEN MaxTTL ELSE 1, FALSE)] :
        k \in 1..(maxInsertion + 1)}

InitCollect ==
    /\ run = NoRun
    /\ probe = NoProbe
    /\ lis = NoRead
    /\ rpc = "collect"
    /\ ti = 1
    /\ net = AnyNet
    /\ hpc = "idle"
    /\ spawned = 0
    /\ hwg = 0
    /\ w = [t \in TTLs |-> NewWorker]
    /\ hopChan = <<>>
    /\ chClosed = FALSE
    /\ chPanic = FALSE
    /\ hops = <<>>
    /\ res = <<>>
    /\ ctxDone = FALSE
    /\ feed \in Feeds(MaxFeed) \cup LongFeeds
    /\ ClientIdle
    /\ RetryIdle

\* the producer writes its next hop (the channel has room for all of them)
Feed ==
    /\ feed # <<>>
    /\ ~chClosed
    /\ hopChan' = Append(hopChan, Head(feed))
    /\ feed' = Tail(feed)
    /\ UNCHANGED <<lis, probe, run, net, rpc, ti, hpc, spawned, hwg, w, chClosed, chPanic, hops,
                   res, ctxDone, clientVars, retryVars>>

\* the producer closes the channel
FeedClose ==
    /\ feed = <<>>
    /\ ~chClosed
    /\ chClosed' = TRUE
    /\ UNCHANGED <<lis, probe, run, net, rpc, ti, hpc, spawned, hwg, w, hopChan, chPanic, hops,
                   res, ctxDone, feed, clientVars, retryVars>>

NextCollect ==
    \/ Feed
    \/ FeedClose
    \/ CollectRecv
    \/ CollectReturn

SpecCollect == InitCollect /\ [][NextCollect]_vars

\* ------------------------------------------------- helper.Retry on its own
\* Retry around any effector, as in TestRetry: every invocation fails or
\* succeeds, and the context may be cancelled at any moment (by the caller or
\* by the effector).

InitRetry ==
    /\ RunOff
    /\ ctxDone = FALSE
    /\ feed = <<>>
    /\ ClientIdle
    /\ rc \in [Count : 0..MaxCount, Delay : 0..MaxDelay]
    /\ retryPc = "call"
    /\ retryR = 1
    /\ calls = 0
    /\ lastErr = 0
    /\ delays = <<>>
    /\ retryRet = NoRetryReturn
    /\ stop = NoStop

\* err := effector(ctx); if err == nil || r > rc.Count { return err };
\* delay := getExpBackoff(rc.Delay, r)
RetryAttempt(fails) ==
    /\ retryPc = "call"
    /\ calls' = calls + 1
    /\ lastErr' = IF fails THEN calls + 1 ELSE 0
    /\ IF retryDone(lastErr', retryR, rc.Count)
       THEN /\ retryPc' = "returned"
            /\ retryRet' = IF fails THEN [kind |-> "err", err |-> lastErr']
                           ELSE [kind |-> "nil", err |-> 0]
            /\ delays' = delays
       ELSE /\ retryPc' = "select"
            /\ delays' = Append(delays, getExpBackoff(rc.Delay, retryR))
            /\ retryRet' = retryRet
    /\ stop' = IF fails /\ ctxDone /\ ~stop.set
               THEN [set |-> TRUE, calls |-> calls + 1,
                     last |-> retryR > rc.Count,
                     elapsed |-> getExpBackoff(rc.Delay, retryR) <= 0]
               ELSE stop
    /\ UNCHANGED <<runVars, ctxDone, feed, clientVars, rc, retryR>>

\* the select is evaluated and case <-ctx.Done() is taken: return ctx.Err()
RetrySelectCtx ==
    /\ retryPc = "select"
    /\ "ctx" \in backoffCases(ctxDone, delays[Len(delays)])
    /\ retryPc' = "returned"
    /\ retryRet' = [kind |-> "ctx", err |-> 0]
    /\ UNCHANGED <<runVars, ctxDone, feed, clientVars, rc, retryR, calls,
                   lastErr, delays, stop>>

\* the select is evaluated and case <-time.After(delay) is taken: r++
RetrySelectTimer ==
    /\ retryPc = "select"
    /\ "timer" \in backoffCases(ctxDone, delays[Len(delays)])
    /\ retryPc' = "call"
    /\ retryR' = retryR + 1
    /\ UNCHANGED <<runVars, ctxDone, feed, clientVars, rc, calls, lastErr,
                   delays, retryRet, stop>>

\* the select is evaluated and no case is ready: the goroutine parks
RetryBlock ==
    /\ retryPc = "select"
    /\ backoffCases(ctxDone, delays[Len(delays)]) = {}
    /\ retryPc' = "wait"
    /\ UNCHANGED <<runVars, ctxDone, feed, clientVars, rc, retryR, calls,
                   lastErr, delays, retryRet, stop>>

\* the timer fires while the goroutine is parked: r++
RetryWakeTimer ==
    /\ retryPc = "wait"
    /\ ~ctxDone
    /\ retryPc' = "call"
    /\ retryR' = retryR + 1
    /\ UNCHANGED <<runVars, ctxDone, feed, clientVars, rc, calls, lastErr,
                   delays, retryRet, stop>>

\* the parked goroutine was woken by the closing of ctx.Done(): return
\* ctx.Err()
RetryWakeCtx ==
    /\ retryPc = "wait"
    /\ ctxDone
    /\ retryPc' = "returned"
    /\ retryRet' = [kind |-> "ctx", err |-> 0]
    /\ UNCHANGED <<runVars, ctxDone, feed, clientVars, rc, retryR, calls,
                   lastErr, delays, stop>>

\* the context handed to Retry is cancelled
CancelRetry ==
    /\ ~ctxDone
    /\ retryPc # "returned"
    /\ ctxDone' = TRUE
    /\ stop' = IF retryPc \in {"select", "wait"} /\ ~stop.set
               THEN [set |-> TRUE, calls |-> calls, last |-> FALSE,
                     elapsed |-> delays[Len(delays)] <= 0]
               ELSE stop
    /\ UNCHANGED <<runVars, feed, clientVars, rc, retryPc, retryR, calls,
                   lastErr, delays, retryRet>>

NextRetry ==
    \/ \E fails \in BOOLEAN : RetryAttempt(fails)
    \/ RetrySelectCtx
    \/ RetrySelectTimer
    \/ RetryBlock
    \/ RetryWakeTimer
    \/ RetryWakeCtx
    \/ CancelRetry

SpecRetry == InitRetry /\ [][NextRetry]_vars

\* ------------------------------------------------------------------ claims

\* the hop list of scenario S1 with the target at distance n
S1Expected(n) ==
    [i \in 1..n |-> IF i < n THEN Hop(i, HopAddress(RouterIP(i), 0), FALSE)
                    ELSE Hop(n, HopAddress(TargetIP, TargetPort), TRUE)]

\* C1: in a network where the probes with TTL i < n are answered by router
\* r_i with TimeExceeded and the probes with TTL >= n connect, the hop list
\* Run stores for a target is exactly hop 1..n-1 from r_1..r_(n-1) with
\* reached=false followed by hop n with reached=true and the target's address
\* and port, in whatever order the workers wrote their hops.
C1_S1Result ==
    \A n \in TTLs :
        net = S1Net(n) => \A k \in 1..Len(res) : res[k] = S1Expected(n)

\* Run has returned in the S1 network with the target at distance MaxTTL and
\* the hop of the largest TTL was the first to arrive for the last target
C1_Witness ==
    /\ rpc = "returned"
    /\ net = S1Net(MaxTTL)
    /\ Len(res) = NumTargets
    /\ Len(hops) = MaxTTL
    /\ hops[1].TTL = MaxTTL
    /\ Len(res[NumTargets]) = MaxTTL

\* C2: once a sub-run has returned an error, whatever genericClient.Run
\* returns is an error and a nil Result.
C2_SubRunErrorReturned ==
    (ret.state # "none" /\ subErr # {}) => (ret.state = "err" /\ ret.resNil)

\* C3: with an invalid target anywhere in the list no sub-run goroutine and
\* no closing goroutine is ever started, and what Run returns is an error and
\* a nil Result.
C3_InvalidTargetNoProbe ==
    (\E i \in 1..Len(targets) : Validate(targets[i]) # "nil") =>
        /\ \A p \in SubProtocols : sub[p] = "off"
        /\ closer = "off"
        /\ resCh = <<>> /\ errsCh = <<>>
        /\ cpc \in {"start", "returned"}
        /\ cpc = "returned" => (ret.state = "err" /\ ret.resNil)

\* Run has returned for a list whose first target is valid and whose second
\* target is invalid
C3_Witness ==
    /\ cpc = "returned"
    /\ Len(targets) = 2
    /\ Validate(targets[1]) = "nil"
    /\ Validate(targets[2]) # "nil"
    /\ ret.state = "err"

\* C4: a Result returned by genericClient.Run without error has an entry for
\* every target of the list.
C4_EntryPerTarget ==
    ret.state = "ok" => DOMAIN ret.res = 1..Len(targets)

\* C5: every hop list returned by collectResults is strictly ascending in
\* TTL (so no TTL occurs twice), whatever was written to the channel and in
\* whatever order.
C5_StrictlyAscending ==
    \A k \in 1..Len(res) :
        \A i, j \in 1..Len(res[k]) : i < j => res[k][i].TTL < res[k][j].TTL

\* collectResults has returned at least two hops for a channel that carried
\* a TTL twice and a larger TTL before a smaller one
C5_Witness ==
    /\ Len(res) = 1
    /\ Len(res[1]) >= 2
    /\ \E i, j \in 1..Len(hops) : i < j /\ hops[i].TTL = hops[j].TTL /\ hops[i].TTL # 0
    /\ \E i, j \in 1..Len(hops) : i < j /\ hops[i].TTL > hops[j].TTL /\ hops[j].TTL # 0

\* C6: in every hop list of the Result a hop with reached=true is the last
\* element and no hop of the list has a larger TTL.
C6_ReachedIsLast ==
    \A k \in 1..Len(res) :
        \A i \in 1..Len(res[k]) :
            res[k][i].Reached =>
                /\ i = Len(res[k])
                /\ \A j \in 1..Len(res[k]) : res[k][j].TTL <= res[k][i].TTL

\* the first target is done, its list ends with a reached hop, and a hop of
\* a larger TTL had been written to the channel before that hop
C6_Witness ==
    /\ rpc = "loop"
    /\ ti = 2
    /\ res[1] # <<>>
    /\ \E i, j \in 1..Len(hops) :
          /\ i < j
          /\ hops[j].Reached
          /\ hops[i].TTL > hops[j].TTL
          /\ res[1][Len(res[1])] = hops[j]

\* C7: every hop of the Result has a TTL in 1..MaxTTL and every hop list has
\* at most MaxTTL hops.
C7_TTLInRange ==
    \A k \in 1..Len(res) :
        /\ Len(res[k]) <= MaxTTL
        /\ \A i \in 1..Len(res[k]) : 1 <= res[k][i].TTL /\ res[k][i].TTL <= MaxTTL

\* a target got a hop list of MaxTTL hops
C7_Witness ==
    /\ Len(res) >= 1
    /\ Len(res[1]) = MaxTTL

\* C8: a worker writes at most one hop over all its attempts; when it is
\* done it has written exactly one hop if Retry returned nil and none if
\* Retry returned an error.
C8_OneHopPerWorker ==
    \A ttl \in TTLs :
        /\ w[ttl].sent <= 1
        /\ w[ttl].pc = "done" => (w[ttl].sent = 1 <=> w[ttl].ret = "nil")

\* the workers of a target are done: one ended in an error after its retries
\* or was cancelled in the backoff, another returned nil
C8_Witness ==
    /\ chClosed
    /\ \E a, b \in TTLs :
          /\ w[a].pc = "done" /\ w[a].ret \in {"err", "ctx"} /\ w[a].sent = 0
          /\ w[b].pc = "done" /\ w[b].ret = "nil" /\ w[b].sent = 1

\* C9: while hopChan is closed every worker of the target has returned, and
\* no send on the closed hopChan ever happens.
C9_CloseAfterWorkers ==
    /\ chClosed => \A ttl \in TTLs : w[ttl].pc = "done"
    /\ ~chPanic

\* the channel is closed and holds a hop
C9_Witness ==
    /\ chClosed
    /\ hopChan # <<>>
    /\ \E ttl \in TTLs : w[ttl].sent = 1

\* C10: hopChan never holds more than MaxTTL hops and no worker is ever
\* blocked in its send.
C10_SendNeverBlocks ==
    /\ Len(hopChan) <= MaxTTL
    /\ \A ttl \in TTLs : w[ttl].pc # "blocked"

\* all MaxTTL hops are in the channel and collectResults has read none
C10_Witness ==
    /\ Len(hopChan) = MaxTTL
    /\ MaxTTL > 0
    /\ hops = <<>>
    /\ \A ttl \in TTLs : w[ttl].pc = "done"

\* the hop list of a target none of whose probes got an answer
StarHops == [i \in 1..MaxTTL |-> Hop(i, HopAddress("*", 0), FALSE)]

\* C16: when every probe of a target fails with EHOSTUNREACH and no ICMP
\* reply arrives before the deadline, the hop list stored for the target has
\* exactly MaxTTL hops, one per TTL 1..MaxTTL in this order, each with the
\* address "*" and reached=false.
C16_AllTimeoutStarHops ==
    net = TimeoutNet => \A k \in 1..Len(res) : res[k] = StarHops

\* Run has returned in the network without replies and the star hop of the
\* largest TTL was the first to arrive for the last target
C16_Witness ==
    /\ rpc = "returned"
    /\ net = TimeoutNet
    /\ Len(res) = NumTargets
    /\ Len(res[NumTargets]) = MaxTTL
    /\ hops[1].TTL = MaxTTL

\* the errors of Read on the listener newRawListener makes on EPERM
EPermReadErrors ==
    {readError(newRawListener(ProbePort, "EPERM"), t, o) : t \in TTLs, o \in Outcomes}

\* C17: on EPERM newRawListener returns a listener and no error, Read on it
\* returns errICMPNotAvailable, and trace returns the ICMP-not-available
\* error; in a network where every probe meets EHOSTUNREACH and EPERM no
\* worker ever writes a hop (no star hop either), every worker ends with an
\* error and the hop list of the target is empty.
C17_EPermNoHop ==
    /\ newRawListener(ProbePort, "EPERM").err = "nil"
    /\ EPermReadErrors = {"errICMPNotAvailable"}
    /\ net = EPermNet =>
          /\ hopChan = <<>>
          /\ hops = <<>>
          /\ \A ttl \in TTLs :
                /\ w[ttl].sent = 0
                /\ w[ttl].pc = "done" => w[ttl].ret \in {"err", "ctx"}
          /\ \A k \in 1..Len(res) : res[k] = <<>>

\* Run has returned in the EPERM network: every worker ran out of retries
\* and the target has an empty hop list
C17_Witness ==
    /\ rpc = "returned"
    /\ net = EPermNet
    /\ Len(res) = NumTargets
    /\ \A ttl \in TTLs : w[ttl].pc = "done" /\ w[ttl].ret = "err"

\* C20: every hop with reached=true in a hop list of the Result has the IP
\* of the target as its address.
C20_ReachedAddrIsTarget ==
    \A k \in 1..Len(res) :
        \A i \in 1..Len(res[k]) :
            res[k][i].Reached => res[k][i].Addr.IP = TargetIP

\* C13: Retry with Count = c invokes the effector at most c+1 times; once an
\* invocation has succeeded Retry has returned nil without a further
\* invocation; an error other than the context's is returned only after c+1
\* failed invocations and is the error of the last of them, and after c+1
\* failed invocations that error is what Retry returns.
C13_RetryAtMostCountPlusOne ==
    /\ calls <= rc.Count + 1
    /\ (calls > 0 /\ lastErr = 0) =>
          (retryPc = "returned" /\ retryRet = [kind |-> "nil", err |-> 0])
    /\ retryRet.kind = "nil" => lastErr = 0
    /\ retryRet.kind = "err" =>
          (calls = rc.Count + 1 /\ retryRet.err = calls /\ lastErr = calls)
    /\ (calls = rc.Count + 1 /\ lastErr # 0) =>
          (retryPc = "returned" /\ retryRet = [kind |-> "err", err |-> calls])

\* Retry with Count >= 1 has returned the error of invocation Count+1
C13_Witness ==
    /\ retryPc = "returned"
    /\ rc.Count >= 1
    /\ calls = rc.Count + 1
    /\ retryRet = [kind |-> "err", err |-> rc.Count + 1]

\* C14: once the context was found cancelled when a failed attempt returned,
\* or was cancelled during the backoff, the effector is not invoked again and
\* what Retry returns is the context's error.
C14_CancelStopsRetry ==
    stop.set =>
        /\ calls = stop.calls
        /\ retryPc = "returned" => retryRet.kind = "ctx"

\* C14 as amended: the same for a failed attempt that is not the last one
\* (r <= Count) and a backoff delay that has not elapsed when the select is
\* evaluated.
C14_CancelStopsRetryAmended ==
    (stop.set /\ ~stop.last /\ ~stop.elapsed) =>
        /\ calls = stop.calls
        /\ retryPc = "returned" => retryRet.kind = "ctx"

\* Retry returned the context's error after a failed attempt that was not the
\* last one, with a delay that had not elapsed
C14_Witness ==
    /\ stop.set /\ ~stop.last /\ ~stop.elapsed
    /\ retryPc = "returned"
    /\ retryRet.kind = "ctx"
    /\ calls >= 1
    /\ calls <= rc.Count

C11_CancelLeavesNothingRunning ==
    (ret.state = "err" /\ ret.err = "context canceled") =>
        \A p \in SubProtocols : sub[p] # "running"

Acceptable(t) ==
    /\ t.Address # ""
    /\ t.Protocol \in {ProtocolTCP, ProtocolUDP}
    /\ t.Port >= 0 /\ t.Port <= 65535

\* C18: Validate returns nil for a target handed to Run if and only if its
\* address is nonempty, its protocol is TCP or UDP and its port is in
\* 0..65535.
C18_ValidateIff ==
    \A i \in 1..Len(targets) :
        (Validate(targets[i]) = "nil") <=> Acceptable(targets[i])

\* C19: once Run is past the grouping of a list of targets with nonempty
\* address, protocol TCP or UDP and port in 0..65535, the sub-run of every
\* target's protocol has been started (so every TCP target is with the TCP
\* tracer and every UDP target with the UDP tracer), and a sub-run has been
\* started only for a protocol that has a target.
C19_DispatchByProtocol ==
    (cpc # "start" /\ \A i \in 1..Len(targets) : Acceptable(targets[i])) =>
        /\ \A i \in 1..Len(targets) : sub[targets[i].Protocol] # "off"
        /\ \A p \in SubProtocols :
              sub[p] # "off" => groupTargets(targets, p) # {}

\* the largest TTL of a hop list, 0 for the empty list
LargestTTL(s) ==
    IF s = <<>> THEN 0
    ELSE CHOOSE m \in {s[i].TTL : i \in 1..Len(s)} :
            \A i \in 1..Len(s) : s[i].TTL <= m

\* the hop list has a hop with the TTL
HasTTL(s, t) == \E i \in 1..Len(s) : s[i].TTL = t

\* C21: every hop list of the Result has a hop for every TTL from 1 up to the
\* largest TTL it holds.
C21_NoMissingTTL ==
    \A k \in 1..Len(res) :
        \A t \in 1..LargestTTL(res[k]) : HasTTL(res[k], t)

\* the trace of the TCP target with each TTL when no ICMP message arrives
\* before the deadline
DeadlineTrace ==
    [t \in TTLs |->
        [ok    |-> traceOk(withHopTTL(RunTarget(ProtocolTCP), t), "deadline"),
         sends |-> traceSends(withHopTTL(RunTarget(ProtocolTCP), t), "deadline")]]

\* C21 as amended: a probe that runs into the deadline returns nil and writes
\* the star hop of its TTL; the hop list of a target has a hop for a TTL up to
\* the largest TTL it holds exactly when the Retry of that TTL's worker
\* returned nil, so a TTL is missing only where the worker ended with an
\* error (every attempt failed, or it was cancelled in the backoff).
C21_MissingOnlyAfterError ==
    /\ \A t \in TTLs : DeadlineTrace[t].ok
    /\ \A t \in TTLs : DeadlineTrace[t].sends = <<Hop(t, HopAddress("*", 0), FALSE)>>
    /\ (rpc \in {"loop", "returned"} /\ Len(res) >= 1) =>
          \A t \in 1..LargestTTL(res[Len(res)]) :
              HasTTL(res[Len(res)], t) <=> w[t].ret = "nil"

\* Run has returned a hop list that holds the hop of the largest TTL alone:
\* the workers of the smaller TTLs ended with an error
C21_Witness ==
    /\ rpc = "returned"
    /\ Len(res) = NumTargets
    /\ Len(res[NumTargets]) = 1
    /\ res[NumTargets][1].TTL = MaxTTL
    /\ MaxTTL >= 2
    /\ \A t \in 1..(MaxTTL - 1) : w[t].ret \in {"err", "ctx"}

\* the hops read with TTL 0 removed, one hop per TTL, namely the one that
\* arrived first with that TTL, in ascending order of TTL, cut after the
\* first hop with reached=true
FirstArrivals(read) ==
    LET nz      == SelectSeq(read, LAMBDA h : h.TTL # 0)
        T       == {nz[i].TTL : i \in 1..Len(nz)}
        first(t) == nz[CHOOSE i \in 1..Len(nz) :
                          /\ nz[i].TTL = t
                          /\ \A j \in 1..(i - 1) : nz[j].TTL # t]
        ordered == [n \in 1..Cardinality(T) |->
                       first(CHOOSE t \in T : Cardinality({u \in T : u < t}) = n - 1)]
        R       == {i \in 1..Len(ordered) : ordered[i].Reached}
    IN  IF R = {} THEN ordered
        ELSE SubSeq(ordered, 1, CHOOSE i \in R : \A j \in R : i <= j)

\* C23: what collectResults returns is the hops read from the channel without
\* the hops of TTL 0, in ascending order of TTL, one hop per TTL, namely the
\* first that arrived with that TTL, cut after the first hop with
\* reached=true.
C23_KeepsFirstArrival ==
    \A k \in 1..Len(res) : res[k] = FirstArrivals(hops)

\* C22: in a network where the kernel queues a TimeExceeded for every probe
\* with TTL below n and a DestinationUnreachable/Port for the probes from TTL
\* n on, the hop list udpClient.Run stores for a UDP target has n hops, TTL
\* 1..n in this order, the first n-1 with reached=false and the last with
\* reached=true.
C22_S2Result ==
    \A n \in 1..run.maxTTL :
        \A k \in 1..Len(res) :
            (run.client = "udpClient" /\ run.targets[k].Protocol = ProtocolUDP
             /\ net = S2Net(n)) =>
                /\ Len(res[k]) = n
                /\ \A i \in 1..n : res[k][i].TTL = i /\ (res[k][i].Reached <=> i = n)

\* C24: the TTL workers of the next target may start before the workers of
\* the current target have finished: while a target is left and a worker of
\* the current target is running, the goroutine of Run or the hopper has a
\* step to take that does not wait for a worker.
C24_TargetsConcurrent ==
    (ti < Len(run.targets) /\ \E t \in TTLs : w[t].pc \in {"trace", "backoff"}) =>
        ENABLED (RunNextTarget \/ HopperSpawn \/ HopperClose \/ CollectRecv
                 \/ CollectReturn \/ RunReturn)

\* the target whose hopper is running or has run last
CurrentIndex == IF rpc = "collect" THEN ti ELSE ti - 1

\* every call of the tracer by the worker of ttl succeeds
TraceSucceeds(ttl) ==
    \A o \in net[ttl] :
        ~tracerFails(run.client,
                     [Protocol |-> run.targets[CurrentIndex].Protocol,
                      Address |-> run.targets[CurrentIndex].Address,
                      Port |-> run.targets[CurrentIndex].Port,
                      hopTTL |-> ttl, hopChan |-> CurrentIndex], o)

\* C26: hopper.run starts one worker for each ttl in 1..Options.MaxTTL and no
\* other (none when Options.MaxTTL = 0); the tracer is called with a clone of
\* the target that has hopTTL = ttl and the protocol, address, port and
\* hopChan of the target of the hopper; a worker whose trace succeeds calls
\* the tracer in the first iteration of Retry only.
C26_WorkerPerTTL ==
    /\ spawned <= run.maxTTL
    /\ hpc \in {"wait", "done"} => spawned = run.maxTTL
    /\ \A ttl \in TTLs :
        /\ w[ttl].pc # "new" <=> (hpc # "idle" /\ ttl <= spawned)
        /\ w[ttl].arg # NoTarget =>
            /\ w[ttl].pc # "new"
            /\ w[ttl].arg.hopTTL = ttl
            /\ w[ttl].arg.hopChan = CurrentIndex
            /\ w[ttl].arg.Protocol = run.targets[CurrentIndex].Protocol
            /\ w[ttl].arg.Address = run.targets[CurrentIndex].Address
            /\ w[ttl].arg.Port = run.targets[CurrentIndex].Port
        /\ (w[ttl].pc # "new" /\ TraceSucceeds(ttl)) =>
            /\ w[ttl].pc \in {"trace", "done"}
            /\ w[ttl].r <= 1
            /\ w[ttl].pc = "done" => (w[ttl].ret = "nil" /\ w[ttl].arg # NoTarget)

\* the hopper of a TCP target has started all MaxTTL workers, every one has
\* called the tracer once and is done
C26_Witness ==
    /\ run.client = "tcpClient"
    /\ run.maxTTL = MaxTTL
    /\ MaxTTL >= 2
    /\ hpc = "done"
    /\ \A ttl \in TTLs :
        /\ TraceSucceeds(ttl)
        /\ w[ttl].pc = "done"
        /\ w[ttl].ret = "nil"
        /\ w[ttl].arg.hopTTL = ttl

\* C25: a UDP probe never opens a raw ICMP socket and never returns the
\* error of the missing capability: what it reads, it reads from the error
\* queue of the UDP socket it dialled.
C25_UDPNoRawSocket ==
    probe.client = "udpClient" =>
        /\ "rawICMPSocket" \notin probe.opened
        /\ probe.listener # "rawListener"
        /\ probe.pkt.err # "errICMPNotAvailable"
        /\ probe.ret # "ICMP not available for reading"
        /\ probe.pc \in {"write", "read"} =>
               (probe.listener = "errQueueListener" /\ "udpSocket" \in probe.opened)
        /\ Len(probe.hops) > 0 =>
               (probe.listener = "errQueueListener" /\ "udpSocket" \in probe.opened)

\* a UDP probe has read a packet from the error queue and has written its hop
C25_Witness ==
    /\ probe.client = "udpClient"
    /\ probe.pc = "returned"
    /\ probe.ret = "nil"
    /\ probe.pkt.err = "nil"
    /\ probe.q # <<>>
    /\ Len(probe.hops) = 1
    /\ probe.hops[1].Addr.IP = probe.pkt.remoteAddr

\* C27: a TCP probe that has returned nil has written exactly one hop with
\* the TTL of its target clone: after a dial that connected, reached=true and
\* the address and port of the target; after EHOSTUNREACH and an ICMP packet,
\* the sender of the packet and reached of the packet; after EHOSTUNREACH
\* and a read that ran into the deadline, address "*" and reached=false.
C27_NilMeansOneHop ==
    (probe.client = "tcpClient" /\ probe.pc = "returned" /\ probe.ret = "nil") =>
        /\ Len(probe.hops) = 1
        /\ probe.hops[1].TTL = probe.t.hopTTL
        /\ \/ /\ probe.dial = "nil"
              /\ probe.hops[1].Reached
              /\ probe.hops[1].Addr = [IP |-> probe.t.Address, Port |-> probe.t.Port]
           \/ /\ probe.dial = "EHOSTUNREACH"
              /\ probe.pkt.err = "nil"
              /\ probe.hops[1].Addr.IP = probe.pkt.remoteAddr
              /\ probe.hops[1].Reached = probe.pkt.reached
           \/ /\ probe.dial = "EHOSTUNREACH"
              /\ probe.pkt.err = "context.DeadlineExceeded"
              /\ probe.hops[1].Addr.IP = "*"
              /\ ~probe.hops[1].Reached

\* a TCP probe got EHOSTUNREACH, read the DestinationUnreachable/Port of the
\* target and returned nil
C27_Witness ==
    /\ probe.client = "tcpClient"
    /\ probe.pc = "returned"
    /\ probe.ret = "nil"
    /\ probe.dial = "EHOSTUNREACH"
    /\ probe.pkt.err = "nil"
    /\ probe.pkt.reached
    /\ Len(probe.hops) = 1
    /\ probe.hops[1].Reached

\* C28: a TCP probe whose dial failed with another error than EHOSTUNREACH
\* has returned that error wrapped, has written no hop and has made no ICMP
\* listener.
C28_DialErrorReturned ==
    (probe.client = "tcpClient" /\ probe.dial \notin {"none", "nil", "EHOSTUNREACH"}) =>
        /\ probe.pc = "returned"
        /\ probe.ret = "failed to dial TCP connection: " \o probe.dial
        /\ probe.hops = <<>>
        /\ probe.listener = "none"
        /\ probe.il = NoListener
        /\ "rawICMPSocket" \notin probe.opened

\* the dial of a TCP probe failed with an error that is not EHOSTUNREACH
C28_Witness ==
    /\ probe.client = "tcpClient"
    /\ probe.dial = "network failure"
    /\ probe.pc = "returned"

\* the ICMP types a listener makes a packet of
PacketTypes == {"TimeExceeded", "DestinationUnreachable"}

\* message i of the queue of the probe is one the listener of the probe
\* returns as a packet
Accepted(i) ==
    /\ probe.q[i].Type \in PacketTypes
    /\ ~probe.q[i].Short
    /\ probe.listener = "rawListener" => probe.q[i].Port = probe.il.recvPort

\* the message the Read of the probe returned as its packet, 0 for none
FirstAccepted ==
    IF \E i \in 1..Len(probe.q) : Accepted(i)
    THEN CHOOSE i \in 1..Len(probe.q) :
            Accepted(i) /\ \A j \in 1..(i - 1) : ~Accepted(j)
    ELSE 0

C30_OnlyFilterPort ==
    (probe.listener = "rawListener" /\ probe.il.canICMP /\ probe.pc = "returned") =>
        /\ probe.pkt.err = "nil" =>
            /\ probe.pkt.port = probe.il.recvPort
            /\ \E i \in 1..Len(probe.q) :
                /\ probe.q[i].Port = probe.il.recvPort
                /\ probe.q[i].Type \in PacketTypes
                /\ probe.pkt.remoteAddr = probe.q[i].Src
                /\ \A j \in 1..(i - 1) :
                       probe.q[j].Port # probe.il.recvPort
                       \/ probe.q[j].Type \notin PacketTypes
        /\ probe.pkt.err # "nil" =>
            /\ probe.pkt.err = probe.end
            /\ \A i \in 1..Len(probe.q) :
                   probe.q[i].Port # probe.il.recvPort
                   \/ probe.q[i].Type \notin PacketTypes

\* a Read skipped a TimeExceeded for another port and returned the packet
\* of the message that came after it
C30_Witness ==
    /\ probe.listener = "rawListener"
    /\ probe.pc = "returned"
    /\ probe.pkt.err = "nil"
    /\ Len(probe.q) = 2
    /\ probe.q[1].Type = "TimeExceeded"
    /\ probe.q[1].Port = OtherPort
    /\ probe.q[2].Port = ProbePort
    /\ probe.pkt.remoteAddr = probe.q[2].Src

\* the errors of recvPacket for a message that cannot be used: too small for
\* a UDP header, or of a type other than TimeExceeded/DestinationUnreachable
ParseFailures ==
    {"received packet too small for UDP header", "unexpected ICMP type"}

\* the messages of a sequence that parse to a packet
Usable(msg) == ~msg.Short /\ parseExtendedErr(msg).err = "nil"

\* the hop udpClient.trace writes for a read that ran into the deadline
StarHop == Hop(1, HopAddress("*", 0), FALSE)

\* C31: errQueueListener.Read called with a context without a deadline
\* returns context.Canceled and no packet after its first recvPacket, without
\* a recvmsg on the socket and without another turn of the loop.
C31_NoDeadlineReturnsCanceled ==
    (lis.pc # "off" /\ ~lis.hasDeadline /\ lis.calls >= 1) =>
        /\ lis.pc = "returned"
        /\ lis.err = "context.Canceled"
        /\ lis.pkt = NoPacket("context.Canceled")
        /\ lis.recvs = 0
        /\ lis.calls = 1

\* C32: a recvmsg on the error queue that reports EAGAIN (EWOULDBLOCK) ends
\* errQueueListener.Read: it returns context.DeadlineExceeded and no packet.
C32_EagainDeadlineExceeded ==
    "EAGAIN" \in lis.errs =>
        /\ lis.pc = "returned"
        /\ lis.err = "context.DeadlineExceeded"
        /\ lis.pkt = NoPacket("context.DeadlineExceeded")

\* Read found the error queue empty before the deadline of its context and
\* returned
C32_Witness ==
    /\ "EAGAIN" \in lis.errs
    /\ lis.pc = "returned"
    /\ lis.done = "nil"
    /\ lis.err = "context.DeadlineExceeded"

\* C33 as stated: with a deadline and a socket whose every receive fails with
\* another error than EAGAIN, or whose SetReadDeadline fails, what Read
\* returns is an empty packet and context.DeadlineExceeded.
C33_ReturnsDeadlineExceeded ==
    (lis.hasDeadline /\ lis.sock \in {"recvErr", "setDeadlineErr"}
        /\ lis.pc = "returned") =>
        /\ lis.err = "context.DeadlineExceeded"
        /\ lis.pkt = NoPacket("context.DeadlineExceeded")

\* C33 as amended: with such a socket Read keeps retrying until its context
\* is done and returns an empty packet and the error of the context,
\* context.DeadlineExceeded when the deadline has passed and
\* context.Canceled when the context was cancelled before; it never returns
\* the underlying error.
C33_ReturnsCtxErr ==
    (lis.hasDeadline /\ lis.sock \in {"recvErr", "setDeadlineErr"}) =>
        /\ lis.done = "nil" => lis.pc # "returned"
        /\ lis.pc = "returned" =>
            /\ lis.err = lis.done
            /\ lis.pkt = NoPacket(lis.done)
            /\ lis.done \in {"context.DeadlineExceeded", "context.Canceled"}
            /\ lis.done = "context.DeadlineExceeded" => lis.expired

\* Read has returned context.DeadlineExceeded after two failed receives
C33_Witness ==
    /\ lis.hasDeadline
    /\ lis.sock = "recvErr"
    /\ lis.pc = "returned"
    /\ lis.calls >= 2
    /\ lis.recvs >= 2
    /\ lis.err = "context.DeadlineExceeded"

C37_StarOnlyWithoutReply ==
    (lis.hasDeadline /\ lis.sock = "ok" /\ lis.pc = "returned"
        /\ lis.hop = StarHop) =>
        \A i \in 1..Len(lis.arrived) : ~Usable(lis.arrived[i])

\* C35: dialTCP never returns EADDRINUSE to the tracer: every attempt that
\* meets EADDRINUSE is followed by an attempt with a newly drawn port of
\* [30000, 40000), and the port dialTCP reports (which the ICMP listener
\* filters by) is the port of its last attempt.
C35_RedialOnAddrInUse ==
    probe.client = "tcpClient" =>
        /\ probe.dial # "EADDRINUSE"
        /\ probe.ret # recordTCPError("EADDRINUSE")
        /\ probe.drawn > 0 =>
            /\ probe.firstPort >= 30000 /\ probe.firstPort < 40000
            /\ probe.lastPort >= 30000 /\ probe.lastPort < 40000
        /\ probe.dial = "none" => probe.drawn = probe.inUse
        /\ probe.dial # "none" =>
            /\ probe.drawn = probe.inUse + 1
            /\ probe.port = probe.lastPort
        /\ probe.listener # "none" => probe.il.recvPort = probe.lastPort

\* a TCP probe connected at its third attempt, after two attempts that found
\* their port in use, and reports the port of the third attempt, which is
\* not the port of the first
C35_Witness ==
    /\ probe.client = "tcpClient"
    /\ probe.pc = "returned"
    /\ probe.inUse = 2
    /\ probe.dial = "nil"
    /\ probe.drawn = 3
    /\ probe.firstPort # probe.lastPort
    /\ probe.port = probe.lastPort

\* C36: when trace has returned, on whatever path, every socket the call
\* opened (TCP connection, UDP socket, raw ICMP socket of its listener) has
\* been closed by its deferred calls, and none is closed while the call
\* still uses it; the listener of a call is a new one, never the listener of
\* a call before.
C36_ClosedOnReturn ==
    /\ probe.pc = "returned" => probe.closed = probe.opened
    /\ probe.pc # "returned" => probe.closed = {}
    /\ probe.ilId # 0 => probe.ilId \notin probe.past
    /\ probe.listener # "none" <=> probe.ilId # 0

\* the second call of trace for a target has returned an error after its
\* Read was cancelled; it had opened a raw ICMP socket, as the first call had
C36_Witness ==
    /\ probe.pc = "returned"
    /\ probe.attempt = 1
    /\ probe.past # {}
    /\ probe.ret = "failed to read ICMP message"
    /\ "rawICMPSocket" \in probe.opened
    /\ "rawICMPSocket" \in probe.closed

\* C40: newICMPPacket returns an error and does not panic for every
\* TimeExceeded or DestinationUnreachable message whose data is shorter than
\* the inner IP header and the two bytes of the port, and so no Read of the
\* raw listener ends in a panic.
C40_ShortDataIsError ==
    /\ probe.pc # "panicked"
    /\ \A i \in 1..Len(probe.q) :
        (probe.listener = "rawListener" /\ probe.il.canICMP
            /\ probe.q[i].Type \in {"TimeExceeded", "DestinationUnreachable"}
            /\ probe.q[i].Short) =>
            newICMPPacket(probe.q[i].Src, probe.q[i]).err
                \notin {"nil", SliceBoundsPanic}

\* C39: the per-protocol Run is done with a target, and in the end returns,
\* only when every TTL worker of the target has terminated and the hopper
\* has closed the channel; a hop that reached the destination at a low TTL
\* and a cancelled context do not let it go on earlier.
C39_ReturnAfterWorkers ==
    (rpc \in {"loop", "returned"} /\ ti > 1) =>
        /\ \A ttl \in 1..run.maxTTL : w[ttl].pc = "done"
        /\ hwg = 0
        /\ hpc = "done"
        /\ chClosed

\* Run has returned for two targets with MaxTTL 2: the first was reached at
\* TTL 1, the context was cancelled while the workers of the second were
\* running, and the worker of TTL 1 ended in the backoff of Retry
C39_Witness ==
    /\ rpc = "returned"
    /\ run.maxTTL = 2
    /\ Len(res) = 2
    /\ Len(res[1]) = 1
    /\ res[1][1].TTL = 1
    /\ res[1][1].Reached
    /\ ctxDone
    /\ w[1].ret = "ctx"
    /\ w[2].pc = "done"

\* C38 as stated: when every sub-run that was started returns,
\* genericClient.Run returns, and what it returns for an empty target list
\* is an empty Result and a nil error.
C38_TerminatesEmptyOk ==
    /\ <>(cpc = "returned")
    /\ []((targets = <<>> /\ cpc = "returned") => ret = ReturnOk(<<>>))

\* C38 as amended: Run returns, and what it returns for an empty target list
\* is an empty Result and a nil error, or the error of its context and no
\* Result when the context is done.
C38_TerminatesEmptyOkOrCtx ==
    /\ <>(cpc = "returned")
    /\ []((targets = <<>> /\ cpc = "returned") =>
            \/ ret = ReturnOk(<<>>)
            \/ ctxDone /\ ret = ReturnErr("context canceled"))

\* Run has returned an empty Result and no error for the empty list, after
\* the goroutine of collect has closed both channels
C38_Witness ==
    /\ targets = <<>>
    /\ cpc = "returned"
    /\ closer = "done"
    /\ ret = ReturnOk(<<>>)

====
